---- MODULE Spec2Model ----
(***************************************************************************)
(* State-machine model of cctl's machine commands (cmd/machine.go):        *)
(* `create machine`, `delete machine` and `recover etcd`.                  *)
(*                                                                         *)
(* The store (Machines, ProvisionedMachines, the Cluster status and the    *)
(* bootstrap token secret) is shared state.  One command runs at a time;   *)
(* a command is a sequence of steps, one step per store request or remote  *)
(* call, and every request or call can fail.  A run ends with              *)
(*   "ok"     the command returned / printed its success line,             *)
(*   "error"  log.Fatalf or an error returned by recoverEtcd,              *)
(*   "panic"  a nil pointer was dereferenced.                              *)
(***************************************************************************)
EXTENDS Integers, Sequences, FiniteSets, TLC

\* ------------------------------------------------------------------ bounds
NumMachines == 3   \* machine names (the --ip flag) are 1..NumMachines
MaxURLs == 2       \* an etcd member advertises 0..MaxURLs client URLs
MaxRuns == 4       \* the operator runs at most MaxRuns commands

\* The longest output of the token command that is parsed.
MaxOut == 15

\* The longest sequence of insertions and deletions applied to a member list.
MaxOps == 4

\* The longest list of roles of a machine.
MaxRoles == 2

\* The fields of a provider-config object.
NumFields == 3

Names == 1..NumMachines
\* etcd member ids: enough for every machine to hold one and be given a new one
Ids == 1..(NumMachines + NumMachines)

\* ------------------------------------------------------------------ values
MasterRole == "Master"
NodeRole == "Node"

\* A nil *EtcdMember.
NilMember == [id |-> 0, urls |-> <<>>]

\* The client URLs machine m advertises when it advertises n of them.
ClientURLs(m, n) == [k \in 1..n |-> <<m, k>>]

\* No object under that name.
NoMachine == [roles |-> <<>>, pm |-> 0, ssh |-> FALSE, member |-> NilMember]

\* clusterutil.RoleContains
RoleContains(r, roles) == \E k \in DOMAIN roles : roles[k] = r

\* ------------------------------------------------------- provider config
\* SchemeGroupVersion
SchemeGroupVersion == "sshproviderconfig/v1alpha1"

\* addKnownTypes: the types registered under SchemeGroupVersion.
KnownTypes == {"SSHMachineProviderConfig", "SSHClusterProviderConfig"}

\* A provider-config object: its type and its fields, 0 being the zero value of a
\* field. "Unregistered" is a type the scheme does not know.
FieldNames == 1..NumFields
FieldValues == 0..2
Objects == [kind : KnownTypes \cup {"Unregistered"}, fields : [FieldNames -> FieldValues]]

\* new(T): the object of a type with every field zero.
ZeroObject(kind) == [kind |-> kind, fields |-> [f \in FieldNames |-> 0]]

\* encoder.Encode: the group-version and the kind, then name and value of every
\* field that is not zero, in the order of the names.
RECURSIVE EncodeFields(_, _)
EncodeFields(fields, f) ==
    IF f > NumFields THEN <<>>
    ELSE (IF fields[f] = 0 THEN <<>> ELSE <<f, fields[f]>>) \o EncodeFields(fields, f + 1)

Encode(obj) ==
    IF obj.kind \notin KnownTypes
    THEN [bytes |-> <<>>, err |-> TRUE]
    ELSE [bytes |-> <<SchemeGroupVersion, obj.kind>> \o EncodeFields(obj.fields, 1),
          err |-> FALSE]

\* decoder.Decode(raw, nil, out): the payload names a registered kind of the
\* group-version; a field the payload does not name keeps its zero value. A payload
\* of another kind than out's is an error.
Decode(raw, out) ==
    IF \/ Len(raw) < 2
       \/ raw[1] # SchemeGroupVersion
       \/ raw[2] \notin KnownTypes
       \/ raw[2] # out.kind
       \/ Len(raw) % 2 # 0
    THEN [obj |-> out, err |-> TRUE]
    ELSE [obj |-> [kind |-> raw[2],
                   fields |-> [f \in FieldNames |->
                       IF \E i \in 3..Len(raw) : i % 2 = 1 /\ raw[i] = f
                       THEN raw[(CHOOSE i \in 3..Len(raw) : i % 2 = 1 /\ raw[i] = f) + 1]
                       ELSE 0]],
          err |-> FALSE]

\* A nil *clusterv1.ProviderConfig.
NilProviderConfig == [raw |-> <<>>]

\* EncodeToProviderConfig that leaves the Raw of the RawExtension unset.
EncodeToProviderConfig_unset(in) ==
    LET e == Encode(in)
    IN IF e.err
       THEN [providerConfig |-> NilProviderConfig, err |-> TRUE]
       ELSE [providerConfig |-> [raw |-> <<>>], err |-> FALSE]

\* SSHProviderConfigCodec.EncodeToProviderConfig
EncodeToProviderConfig(in) ==
    LET e == Encode(in)
    IN IF e.err
       THEN [providerConfig |-> NilProviderConfig, err |-> TRUE]
       ELSE [providerConfig |-> [raw |-> e.bytes], err |-> FALSE]

\* SSHProviderConfigCodec.DecodeFromProviderConfig: out as the call leaves it, and
\* the error.
DecodeFromProviderConfig(providerConfig, out) ==
    LET d == Decode(providerConfig.raw, out)
    IN IF d.err
       THEN [out |-> out, err |-> TRUE]
       ELSE [out |-> d.obj, err |-> FALSE]

\* No object given to the codec.
NoCodec == [in |-> ZeroObject("none"), providerConfig |-> NilProviderConfig,
            out |-> ZeroObject("none"), err |-> FALSE]

\* No creation under way.
NoProc == [pc |-> "start", cluster |-> <<>>, member |-> NilMember]
NoProcs == [p \in 1..2 |-> NoProc]

\* ------------------------------------------------------- etcd member set
\* setsutil.EtcdMemberSet: a set of members keyed by member id.
RECURSIVE NewEtcdMemberSet(_)
NewEtcdMemberSet(members) ==
    IF members = <<>> THEN << >>
    ELSE LET rest == NewEtcdMemberSet(SubSeq(members, 1, Len(members) - 1))
             last == members[Len(members)]
         IN [i \in (DOMAIN rest) \cup {last.id} |->
                IF i = last.id THEN last ELSE rest[i]]

SetInsert(set, member) ==
    [i \in (DOMAIN set) \cup {member.id} |-> IF i = member.id THEN member ELSE set[i]]

SetDelete(set, member) ==
    [i \in (DOMAIN set) \ {member.id} |-> set[i]]

RECURSIVE SetList(_)
SetList(set) ==
    IF DOMAIN set = {} THEN <<>>
    ELSE LET top == CHOOSE i \in DOMAIN set : \A j \in DOMAIN set : j <= i
         IN Append(SetList([i \in (DOMAIN set) \ {top} |-> set[i]]), set[top])

\* The ids of a persisted member list.
IdsOf(members) == {members[k].id : k \in DOMAIN members}

\* --------------------------------------------------------------- variables
VARIABLES
    machines,        \* store: Machine objects, by name (NoMachine when absent)
    pms,             \* store: names of the ProvisionedMachine objects
    clusterMembers,  \* store: EtcdMembers of the persisted Cluster status
    tokenSecret,     \* store: the bootstrap token secret exists
    cmd,             \* the command of the current (or last) run
    pc,              \* position in the running command, "done" when none runs
    result,          \* how the last run ended
    target,          \* the --ip of create/delete
    role,            \* the --role of create
    newNil,          \* create: newProvisionedMachineAndMachine returned nil, nil, err
    cluster,         \* the run's in-memory Cluster: its status EtcdMembers
    mem,             \* the run's in-memory Machine objects, by name
    masters,         \* recover: the masters, in input order; create: the chosen master
    idx,             \* loop index into masters
    sub,             \* position inside writeSecretToMachine
    etcdCASecret,    \* recover: the in-memory etcd CA secret
    firstEtcdMember, \* recover: the member read back from the seed
    etcdMember,      \* recover: the member read back last
    nodeName,        \* delete: the node lookup returned a name
    stdOut,          \* create: the output of the join-token command, its characters
    codec,           \* an object, its encoding and what the encoding decodes to
    procs,           \* two creations at a time: the position and the locals of each
    token,           \* create: what tokenAndCAHashFromKubeadmJoinCommand returned
    runs,            \* the number of commands started so far
    trace,           \* the store requests and remote calls this run has issued
    pre              \* the store as it was when this run started

store == <<machines, pms, clusterMembers, tokenSecret>>
locals == <<target, role, newNil, cluster, mem, masters, idx, sub, etcdCASecret,
            firstEtcdMember, etcdMember, nodeName>>
vars == <<machines, pms, clusterMembers, tokenSecret, cmd, pc, result, target, role,
          newNil, cluster, mem, masters, idx, sub, etcdCASecret, firstEtcdMember,
          etcdMember, nodeName, stdOut, token, codec, procs, runs, trace, pre>>

\* ------------------------------------------------------------------ traces
\* One entry per request to the store or call on a remote session.
\* err: the request or call returned an error.
Read(what) == [k |-> "read", m |-> 0, op |-> what, arg |-> <<>>, err |-> FALSE]
Write(what) == [k |-> "write", m |-> 0, op |-> what, arg |-> <<>>, err |-> FALSE]
Dial(m) == [k |-> "dial", m |-> m, op |-> "NewClient", arg |-> <<>>, err |-> FALSE]
Cmd(m, what) == [k |-> "cmd", m |-> m, op |-> what, arg |-> <<>>, err |-> FALSE]
CmdArg(m, what, arg) == [k |-> "cmd", m |-> m, op |-> what, arg |-> arg, err |-> FALSE]
File(m, what, path) == [k |-> "file", m |-> m, op |-> what, arg |-> path, err |-> FALSE]
Failed(e) == [e EXCEPT !.err = TRUE]

Issue(entries) == trace' = trace \o entries

\* ------------------------------------------------------------ run endings
Ends(how) == /\ pc' = "done"
             /\ result' = how
Fatal == Ends("error")
Panic == Ends("panic")
Goto(label) == /\ pc' = label
               /\ UNCHANGED result

Idle == pc = "idle"

\* No token read yet.
NoToken == [token |-> <<>>, caHash |-> <<>>, err |-> FALSE]

\* The operator starts a command.
Start(command) ==
    /\ Idle
    /\ runs < MaxRuns
    /\ runs' = runs + 1
    /\ cmd' = command
    /\ pre' = [machines |-> machines, pms |-> pms, clusterMembers |-> clusterMembers]
    /\ stdOut' = <<>>
    /\ UNCHANGED <<codec, procs>>
    /\ token' = NoToken

\* sshMachineClientFromSSHConfig followed by one call on the session, one of which
\* fails: the credential read, the set-up of the session, or the call.
SessionFails(m, e) ==
    \/ /\ Issue(<<Failed(Read("GetSecret"))>>)
       /\ Fatal
    \/ /\ Issue(<<Read("GetSecret"), Failed(Dial(m))>>)
       /\ Fatal
    \/ /\ Issue(<<Read("GetSecret"), Dial(m), Failed(e)>>)
       /\ Fatal

\* sshMachineClientFromSSHConfig followed by one call on the session, with nothing
\* else changed by the step: the credential read fails, the session cannot be
\* set up, the call fails, or the run goes on at next.
SessionCall(m, e, next) ==
    \/ SessionFails(m, e)
    \/ /\ Issue(<<Read("GetSecret"), Dial(m), e>>)
       /\ Goto(next)


\* A call whose error is dropped.
Call_unchecked(e, next) ==
    /\ Issue(<<Failed(e)>>) \/ Issue(<<e>>)
    /\ Goto(next)

\* One call on a session set up before, with nothing else changed by the step.
Call(e, next) ==
    \/ /\ Issue(<<Failed(e)>>)
       /\ Fatal
    \/ /\ Issue(<<e>>)
       /\ Goto(next)

Snapshot == [machines |-> machines, pms |-> pms, clusterMembers |-> clusterMembers]

\* The locals of a fresh process.
FreshLocals ==
    /\ target' = 0
    /\ role' = "none"
    /\ cluster' = <<>>
    /\ newNil' = FALSE
    /\ mem' = [n \in Names |-> NoMachine]
    /\ masters' = <<>>
    /\ idx' = 0
    /\ sub' = 0
    /\ etcdCASecret' = "nil"
    /\ firstEtcdMember' = NilMember
    /\ etcdMember' = NilMember
    /\ nodeName' = FALSE
    /\ stdOut' = <<>>
    /\ UNCHANGED <<codec, procs>>
    /\ token' = NoToken

\* ----------------------------------------------------------------- the ids
\* etcd draws the id of a new member: an id no machine holds or held when the run
\* started and no record of the Cluster status carries. Which one is immaterial;
\* the model takes, for machine m, the first unused of m, m + NumMachines, 1, 2, ...
UsedIds ==
    {machines[n].member.id : n \in Names} \cup IdsOf(clusterMembers)
        \cup {pre.machines[n].member.id : n \in Names} \cup {0}
FreshIds == Ids \ UsedIds
FreshId(m) ==
    IF m \in FreshIds THEN m
    ELSE IF m + NumMachines \in FreshIds THEN m + NumMachines
    ELSE CHOOSE i \in FreshIds : \A j \in FreshIds : i <= j

Masters(ms) == {n \in Names : RoleContains(MasterRole, ms[n].roles)}

\* The state before the first command, but for the output of the token command.
\* No command has run yet: no run is in progress and every local has its zero value.
InitRun ==
    /\ clusterMembers = <<>>
    /\ tokenSecret = FALSE
    /\ cmd = "none"
    /\ pc = "idle"
    /\ result = "none"
    /\ target = 0
    /\ role = "none"
    /\ newNil = FALSE
    /\ cluster = <<>>
    /\ mem = [n \in Names |-> NoMachine]
    /\ masters = <<>>
    /\ idx = 0
    /\ sub = 0
    /\ etcdCASecret = "nil"
    /\ firstEtcdMember = NilMember
    /\ etcdMember = NilMember
    /\ nodeName = FALSE
    /\ runs = 0
    /\ trace = <<>>
    /\ token = NoToken
    /\ procs = NoProcs

InitStore ==
    /\ machines = [n \in Names |-> NoMachine]
    /\ pms = {}
    /\ pre = [machines |-> [n \in Names |-> NoMachine], pms |-> {}, clusterMembers |-> <<>>]
    /\ InitRun

Init ==
    /\ InitStore
    /\ stdOut = <<>>
    /\ codec = NoCodec

TypeOK ==
    /\ pc \in STRING
    /\ pms \subseteq Names

\* ================================================================= create
\* newProvisionedMachineAndMachine: the Machine of the pair. It carries the given
\* role, an empty provider status, and the name of its ProvisionedMachine, which
\* is the machine's own name.
newMachine(name, r) ==
    [roles |-> <<r>>, pm |-> name, ssh |-> FALSE, member |-> NilMember]

\* The characters of an output: the space stands for the white space, "a" for
\* any other character.
Chars == {" ", "a"}
IsSpace(c) == c = " "

\* strings.Fields(s): the maximal runs of non-space characters of s, in order.
\* cur is the run being read at position i.
RECURSIVE FieldsFrom(_, _, _)
FieldsFrom(s, i, cur) ==
    IF i > Len(s)
    THEN IF cur = <<>> THEN <<>> ELSE <<cur>>
    ELSE IF IsSpace(s[i])
    THEN (IF cur = <<>> THEN <<>> ELSE <<cur>>) \o FieldsFrom(s, i + 1, <<>>)
    ELSE FieldsFrom(s, i + 1, Append(cur, s[i]))

Fields(s) == FieldsFrom(s, 1, <<>>)

\* tokenAndCAHashFromKubeadmJoinCommand with the fields before the token and the
\* hash taken for them.
tokenAndCAHashFromKubeadmJoinCommand_shifted(cmdStdout) ==
    LET fields == Fields(cmdStdout)
    IN IF Len(fields) # 7
       THEN [token |-> <<>>, caHash |-> <<>>, err |-> TRUE]
       ELSE [token |-> fields[4], caHash |-> fields[6], err |-> FALSE]

\* tokenAndCAHashFromKubeadmJoinCommand. Go's fields[4] and fields[6] are the fifth
\* and the seventh field.
tokenAndCAHashFromKubeadmJoinCommand(cmdStdout) ==
    LET fields == Fields(cmdStdout)
    IN IF Len(fields) # 7
       THEN [token |-> <<>>, caHash |-> <<>>, err |-> TRUE]
       ELSE [token |-> fields[5], caHash |-> fields[7], err |-> FALSE]

\* An output of n one-character fields, a space between two.
Line(n) == [i \in 1..(IF n = 0 THEN 0 ELSE n + n - 1) |-> IF i % 2 = 1 THEN "a" ELSE " "]

\* The outputs of `kubeadm token create --print-join-command` the commands draw
\* from: empty, and of 6, 7 and 8 fields.
JoinOutputs == {Line(0), Line(6), Line(7), Line(8)}

\* A role that passes for any.
ValidRole_any(r) == TRUE

\* role != clustercommon.MasterRole && role != clustercommon.NodeRole is fatal.
ValidRole(r) == r = MasterRole \/ r = NodeRole

\* machineCmdCreate up to the construction of the pair: flag validation, the reads
\* of the Cluster and of the SSH credential secret, newProvisionedMachineAndMachine.
machineCmdCreate ==
    /\ Start("create")
    /\ \E ip \in Names, r \in {MasterRole, NodeRole, "Other"},
          fail \in {"none", "flags", "cluster", "secret", "encode"} :
        /\ target' = ip
        /\ role' = r
        /\ masters' = <<>> /\ idx' = 0 /\ sub' = 0 /\ etcdCASecret' = "nil"
        /\ firstEtcdMember' = NilMember /\ etcdMember' = NilMember /\ nodeName' = FALSE
        /\ UNCHANGED store
        /\ IF ~ValidRole(r) \/ fail = "flags"
           THEN /\ trace' = <<>>
                /\ cluster' = <<>>
                /\ mem' = [n \in Names |-> NoMachine]
                /\ newNil' = FALSE
                /\ Fatal
           ELSE IF fail = "cluster"
           THEN /\ trace' = <<Failed(Read("GetCluster"))>>
                /\ cluster' = <<>>
                /\ mem' = [n \in Names |-> NoMachine]
                /\ newNil' = FALSE
                /\ Fatal
           ELSE IF fail = "secret"
           THEN /\ trace' = <<Read("GetCluster"), Failed(Read("GetSecret"))>>
                /\ cluster' = clusterMembers
                /\ mem' = [n \in Names |-> NoMachine]
                /\ newNil' = FALSE
                /\ Fatal
           ELSE /\ trace' = <<Read("GetCluster"), Read("GetSecret")>>
                /\ cluster' = clusterMembers
                /\ newNil' = (fail = "encode")
                /\ mem' = [n \in Names |->
                             IF n = ip /\ fail # "encode" THEN newMachine(ip, r) ELSE NoMachine]
                /\ Goto("c_createpm")

\* The role-dependent continuation after the pair is persisted.
AfterPersist == IF RoleContains(NodeRole, mem[target].roles) THEN "c_master" ELSE "c_actuator"


\* A creation of the ProvisionedMachine whose error is dropped.
createProvisionedMachine_unchecked ==
    /\ pc = "c_createpm"
    /\ UNCHANGED <<machines, clusterMembers, tokenSecret, cmd, pre, runs, stdOut, token, codec, procs, locals>>
    /\ IF newNil
       THEN /\ UNCHANGED pms
            /\ Issue(<<Failed(Write("CreateProvisionedMachine"))>>)
            /\ (Fatal \/ Panic)
       ELSE \E ok \in BOOLEAN :
              IF ok /\ target \notin pms
              THEN /\ pms' = pms \cup {target}
                   /\ Issue(<<Write("CreateProvisionedMachine")>>)
                   /\ Goto("c_createmachine")
              ELSE /\ UNCHANGED pms
                   /\ Issue(<<Failed(Write("CreateProvisionedMachine"))>>)
                   /\ Goto("c_createmachine")

\* ProvisionedMachines(...).Create(newProvisionedMachine)
createProvisionedMachine ==
    /\ pc = "c_createpm"
    /\ UNCHANGED <<machines, clusterMembers, tokenSecret, cmd, pre, runs, stdOut, token, codec, procs, locals>>
    /\ IF newNil
       THEN /\ UNCHANGED pms
            /\ Issue(<<Failed(Write("CreateProvisionedMachine"))>>)
            /\ (Fatal \/ Panic)
       ELSE \E ok \in BOOLEAN :
              IF ok /\ target \notin pms
              THEN /\ pms' = pms \cup {target}
                   /\ Issue(<<Write("CreateProvisionedMachine")>>)
                   /\ Goto("c_createmachine")
              ELSE /\ UNCHANGED pms
                   /\ Issue(<<Failed(Write("CreateProvisionedMachine"))>>)
                   /\ Fatal

\* Machines(...).Create(newMachine)
createMachine ==
    /\ pc = "c_createmachine"
    /\ UNCHANGED <<pms, clusterMembers, tokenSecret, cmd, pre, runs, stdOut, token, codec, procs, locals>>
    /\ \E ok \in BOOLEAN :
          IF ok /\ machines[target] = NoMachine
          THEN /\ machines' = [machines EXCEPT ![target] = mem[target]]
               /\ Issue(<<Write("CreateMachine")>>)
               /\ Goto(AfterPersist)
          ELSE /\ UNCHANGED machines
               /\ Issue(<<Failed(Write("CreateMachine"))>>)
               /\ Fatal

\* masterMachineAndProvisionedMachine: the first master of the machine list and its
\* ProvisionedMachine. The order of the list is the store's.
masterMachineAndProvisionedMachine ==
    /\ pc = "c_master"
    /\ UNCHANGED <<store, cmd, pre, runs, stdOut, token, codec, procs, target, role, newNil, cluster, idx, sub, etcdCASecret,
                   firstEtcdMember, etcdMember, nodeName>>
    /\ \/ /\ Issue(<<Failed(Read("ListMachines"))>>)
          /\ UNCHANGED <<mem, masters>>
          /\ Fatal
       \/ /\ Masters(machines) = {}
          /\ Issue(<<Read("ListMachines")>>)
          /\ UNCHANGED <<mem, masters>>
          /\ Fatal
       \/ \E mm \in Masters(machines), ok \in BOOLEAN :
            IF ok /\ machines[mm].pm \in pms
            THEN /\ Issue(<<Read("ListMachines"), Read("GetProvisionedMachine")>>)
                 /\ masters' = <<mm>>
                 /\ mem' = [mem EXCEPT ![mm] = machines[mm]]
                 /\ Goto("c_token")
            ELSE /\ Issue(<<Read("ListMachines"), Failed(Read("GetProvisionedMachine"))>>)
                 /\ UNCHANGED <<mem, masters>>
                 /\ Fatal

\* bootstrapTokenSecretFromMachine with the error of the parse dropped.
bootstrapTokenSecretFromMachine_unparsed ==
    /\ pc = "c_token"
    /\ UNCHANGED <<store, cmd, pre, runs, locals>>
    /\ UNCHANGED <<codec, procs>>
    /\ LET m == masters[1]
       IN \/ /\ SessionFails(m, Cmd(m, "kubeadm token create"))
             /\ UNCHANGED <<stdOut, token>>
          \/ \E out \in JoinOutputs :
               /\ Issue(<<Read("GetSecret"), Dial(m), CmdArg(m, "kubeadm token create", out)>>)
               /\ stdOut' = out
               /\ token' = tokenAndCAHashFromKubeadmJoinCommand(out)
               /\ Goto("c_secret")

\* bootstrapTokenSecretFromMachine: a session to the master, the token command,
\* the parse of its output. The trace entry of the command carries its output.
bootstrapTokenSecretFromMachine ==
    /\ pc = "c_token"
    /\ UNCHANGED <<store, cmd, pre, runs, locals>>
    /\ UNCHANGED <<codec, procs>>
    /\ LET m == masters[1]
       IN \/ /\ SessionFails(m, Cmd(m, "kubeadm token create"))
             /\ UNCHANGED <<stdOut, token>>
          \/ \E out \in JoinOutputs :
               /\ Issue(<<Read("GetSecret"), Dial(m), CmdArg(m, "kubeadm token create", out)>>)
               /\ stdOut' = out
               /\ token' = tokenAndCAHashFromKubeadmJoinCommand(out)
               /\ IF token'.err THEN Fatal ELSE Goto("c_secret")

\* The bootstrap token secret is created, or updated when it exists.
putBootstrapTokenSecret ==
    /\ pc = "c_secret"
    /\ UNCHANGED <<machines, pms, clusterMembers, cmd, pre, runs, stdOut, token, codec, procs, locals>>
    /\ LET put == Write(IF tokenSecret THEN "UpdateSecret" ELSE "CreateSecret")
       IN \/ /\ Issue(<<Failed(Read("GetBootstrapTokenSecret"))>>)
             /\ UNCHANGED tokenSecret
             /\ Fatal
          \/ /\ Issue(<<Read("GetBootstrapTokenSecret"), Failed(put)>>)
             /\ UNCHANGED tokenSecret
             /\ Fatal
          \/ /\ Issue(<<Read("GetBootstrapTokenSecret"), put>>)
             /\ tokenSecret' = TRUE
             /\ Goto("c_actuator")

\* The status the provisioning actuator leaves on a machine it bootstrapped: the
\* SSH configuration and, on a master, the etcd member the machine became.
Bootstrapped(m, id) ==
    [m EXCEPT !.ssh = TRUE,
              !.member = IF RoleContains(MasterRole, m.roles)
                         THEN [id |-> id, urls |-> ClientURLs(m.pm, 1)]
                         ELSE NilMember]

\* actuatorCreate with the error of actuator.Create dropped.
actuatorCreate_unchecked ==
    /\ pc = "c_actuator"
    /\ UNCHANGED <<pms, clusterMembers, tokenSecret, cmd, pre, runs, stdOut, token, codec, procs, target, role, newNil,
                   cluster, masters, idx, sub, etcdCASecret, firstEtcdMember, etcdMember,
                   nodeName>>
    /\ \/ /\ UNCHANGED <<machines, mem>>
          /\ Issue(<<Failed(Cmd(target, "actuator.Create"))>>)
          /\ Goto(IF RoleContains(NodeRole, mem[target].roles) THEN "c_kubeget" ELSE "c_cluster")
       \/ /\ mem' = [mem EXCEPT ![target] = Bootstrapped(mem[target], FreshId(target))]
          /\ machines' = [machines EXCEPT ![target] = mem'[target]]
          /\ Issue(<<Cmd(target, "actuator.Create")>>)
          /\ Goto(IF RoleContains(NodeRole, mem[target].roles) THEN "c_kubeget" ELSE "c_cluster")

\* actuator.Create(cluster, newMachine). The actuator updates newMachine and the
\* stored Machine status; when it fails it may have recorded the SSH
\* configuration already.
actuatorCreate ==
    /\ pc = "c_actuator"
    /\ UNCHANGED <<pms, clusterMembers, tokenSecret, cmd, pre, runs, stdOut, token, codec, procs, target, role, newNil,
                   cluster, masters, idx, sub, etcdCASecret, firstEtcdMember, etcdMember,
                   nodeName>>
    /\ \/ /\ UNCHANGED <<machines, mem>>
          /\ Issue(<<Failed(Cmd(target, "actuator.Create"))>>)
          /\ Fatal
       \/ /\ mem' = [mem EXCEPT ![target].ssh = TRUE]
          /\ machines' = [machines EXCEPT ![target] = mem'[target]]
          /\ Issue(<<Failed(Cmd(target, "actuator.Create"))>>)
          /\ Fatal
       \/ /\ mem' = [mem EXCEPT ![target] = Bootstrapped(mem[target], FreshId(target))]
          /\ machines' = [machines EXCEPT ![target] = mem'[target]]
          /\ Issue(<<Cmd(target, "actuator.Create")>>)
          /\ Goto(IF RoleContains(NodeRole, mem[target].roles) THEN "c_kubeget" ELSE "c_cluster")

\* adminKubeconfigFromMachine(masterMachine, masterProvisionedMachine)
adminKubeconfigFromMachine ==
    /\ pc = "c_kubeget"
    /\ UNCHANGED <<store, cmd, pre, runs, stdOut, token, codec, procs, locals>>
    /\ SessionCall(masters[1], File(masters[1], "ReadFile", "admin.conf"), "c_kubeput")

\* writeAdminKubeconfigToMachine(kubeconfig, newMachine, newProvisionedMachine)
writeAdminKubeconfigToMachine ==
    /\ pc = "c_kubeput"
    /\ UNCHANGED <<store, cmd, pre, runs, stdOut, token, codec, procs, locals>>
    /\ SessionCall(target, File(target, "WriteFile", "admin.conf"), "c_cluster")

\* createUpdateClusterStatus with the set built without the members of the Cluster
\* status.
createUpdateClusterStatus_replaced ==
    /\ pc = "c_cluster"
    /\ UNCHANGED <<machines, pms, tokenSecret, cmd, pre, runs, stdOut, token, codec, procs, target, role, newNil, mem,
                   masters, idx, sub, etcdCASecret, firstEtcdMember, etcdMember, nodeName>>
    /\ \/ /\ UNCHANGED <<clusterMembers, cluster, trace>>
          /\ Fatal
       \/ /\ mem[target].member = NilMember
          /\ UNCHANGED <<clusterMembers, cluster, trace>>
          /\ Goto("pull")
       \/ /\ mem[target].member # NilMember
          /\ cluster' = SetList(SetInsert(NewEtcdMemberSet(<<>>), mem[target].member))
          /\ \/ /\ clusterMembers' = cluster'
                /\ Issue(<<Write("UpdateClusterStatus")>>)
                /\ Goto("pull")
             \/ /\ UNCHANGED clusterMembers
                /\ Issue(<<Failed(Write("UpdateClusterStatus"))>>)
                /\ Fatal

\* The "Updating cluster status" block of create: the new machine's etcd member,
\* when it has one, is inserted and the Cluster status written back.
createUpdateClusterStatus ==
    /\ pc = "c_cluster"
    /\ UNCHANGED <<machines, pms, tokenSecret, cmd, pre, runs, stdOut, token, codec, procs, target, role, newNil, mem,
                   masters, idx, sub, etcdCASecret, firstEtcdMember, etcdMember, nodeName>>
    /\ \/ /\ UNCHANGED <<clusterMembers, cluster, trace>>
          /\ Fatal
       \/ /\ mem[target].member = NilMember
          /\ UNCHANGED <<clusterMembers, cluster, trace>>
          /\ Goto("pull")
       \/ /\ mem[target].member # NilMember
          /\ cluster' = SetList(SetInsert(NewEtcdMemberSet(cluster), mem[target].member))
          /\ \/ /\ clusterMembers' = cluster'
                /\ Issue(<<Write("UpdateClusterStatus")>>)
                /\ Goto("pull")
             \/ /\ UNCHANGED clusterMembers
                /\ Issue(<<Failed(Write("UpdateClusterStatus"))>>)
                /\ Fatal

\* state.PullFromAPIs() and the success line. "r_ok": recoverEtcd has returned nil.
pullFromAPIs ==
    /\ pc \in {"pull", "r_ok"}
    /\ UNCHANGED <<store, cmd, pre, runs, stdOut, token, codec, procs, locals>>
    /\ \/ /\ Issue(<<Failed(Read("PullFromAPIs"))>>)
          /\ Fatal
       \/ /\ Issue(<<Read("PullFromAPIs")>>)
          /\ Ends("ok")

\* ================================================================= delete
\* The number of times role r occurs in the roles of the listed machines.
RECURSIVE CountRole(_, _)
CountRole(r, roleLists) ==
    IF roleLists = <<>> THEN 0
    ELSE Cardinality({k \in DOMAIN Head(roleLists) : Head(roleLists)[k] = r})
            + CountRole(r, Tail(roleLists))


\* deleteMustNotOrphanNodes that counts the masters left once the target is gone.
deleteMustNotOrphanNodes_after(targetRoles, roleLists) ==
    /\ RoleContains(MasterRole, targetRoles)
    /\ CountRole(MasterRole, roleLists) = 0
    /\ CountRole(NodeRole, roleLists) > 0

\* deleteMustNotOrphanNodes: TRUE when it ends the run. roleLists are the
\* Spec.Roles of the machines of the store's list.
deleteMustNotOrphanNodes(targetRoles, roleLists) ==
    /\ RoleContains(MasterRole, targetRoles)
    /\ CountRole(MasterRole, roleLists) = 1
    /\ CountRole(NodeRole, roleLists) > 0

\* The Spec.Roles of the machines in the store, as Machines(...).List returns them.
RECURSIVE RoleListsOf(_, _)
RoleListsOf(ms, names) ==
    IF names = {} THEN <<>>
    ELSE LET n == CHOOSE x \in names : \A y \in names : x <= y
         IN <<ms[n].roles>> \o RoleListsOf(ms, names \ {n})

Present(ms) == {n \in Names : ms[n] # NoMachine}

\* machineCmdDelete up to the orphan check: the reads of the Machine, of its
\* ProvisionedMachine and of the Cluster, then deleteMustNotOrphanNodes.
machineCmdDelete ==
    /\ Start("delete")
    /\ \E ip \in Names, fail \in {"none", "machine", "decode", "pm", "cluster", "list"} :
        /\ target' = ip
        /\ UNCHANGED <<store, role, newNil, masters, idx, sub, etcdCASecret,
                       firstEtcdMember, etcdMember, nodeName>>
        /\ IF fail = "machine" \/ machines[ip] = NoMachine
           THEN /\ trace' = <<Failed(Read("GetMachine"))>>
                /\ UNCHANGED <<mem, cluster>>
                /\ Fatal
           ELSE IF fail = "decode"
           THEN /\ trace' = <<Read("GetMachine")>>
                /\ mem' = [mem EXCEPT ![ip] = machines[ip]]
                /\ UNCHANGED cluster
                /\ Fatal
           ELSE IF fail = "pm" \/ machines[ip].pm \notin pms
           THEN /\ trace' = <<Read("GetMachine"), Failed(Read("GetProvisionedMachine"))>>
                /\ mem' = [mem EXCEPT ![ip] = machines[ip]]
                /\ UNCHANGED cluster
                /\ Fatal
           ELSE IF fail = "cluster"
           THEN /\ trace' = <<Read("GetMachine"), Read("GetProvisionedMachine"),
                              Failed(Read("GetCluster"))>>
                /\ mem' = [mem EXCEPT ![ip] = machines[ip]]
                /\ UNCHANGED cluster
                /\ Fatal
           ELSE /\ mem' = [mem EXCEPT ![ip] = machines[ip]]
                /\ cluster' = clusterMembers
                /\ LET reads == <<Read("GetMachine"), Read("GetProvisionedMachine"),
                                  Read("GetCluster")>>
                       master == RoleContains(MasterRole, machines[ip].roles)
                   IN IF master /\ fail = "list"
                      THEN /\ trace' = reads \o <<Failed(Read("ListMachines"))>>
                           /\ Fatal
                      ELSE /\ trace' = reads \o (IF master THEN <<Read("ListMachines")>>
                                                           ELSE <<>>)
                           /\ IF deleteMustNotOrphanNodes(machines[ip].roles,
                                      RoleListsOf(machines, Present(machines)))
                              THEN Fatal
                              ELSE Goto("d_lookup")


\* A node lookup after which the drain is run whatever the lookup printed.
lookupNode_alwaysDrain ==
    /\ pc = "d_lookup"
    /\ UNCHANGED <<store, cmd, pre, runs, stdOut, token, codec, procs, target, role, newNil, cluster, mem, masters, idx, sub,
                   etcdCASecret, firstEtcdMember, etcdMember>>
    /\ \E found \in BOOLEAN :
          /\ SessionCall(target, Cmd(target, "kubectl get node"), "d_drain")
          /\ nodeName' = (found /\ pc' # "done")

\* drainAndDeleteNodeForMachine: the session and the hostname-based node lookup.
lookupNode ==
    /\ pc = "d_lookup"
    /\ UNCHANGED <<store, cmd, pre, runs, stdOut, token, codec, procs, target, role, newNil, cluster, mem, masters, idx, sub,
                   etcdCASecret, firstEtcdMember, etcdMember>>
    /\ \E found \in BOOLEAN :
          /\ SessionCall(target, Cmd(target, "kubectl get node"),
                         IF found THEN "d_drain" ELSE "d_actuator")
          /\ nodeName' = (found /\ pc' # "done")


\* A drain whose error is dropped.
drainNode_unchecked ==
    /\ pc = "d_drain"
    /\ UNCHANGED <<store, cmd, pre, runs, stdOut, token, codec, procs, locals>>
    /\ Call_unchecked(Cmd(target, "kubectl drain"), "d_nodedelete")

\* drainAndDeleteNodeForMachine: kubectl drain
drainNode ==
    /\ pc = "d_drain"
    /\ UNCHANGED <<store, cmd, pre, runs, stdOut, token, codec, procs, locals>>
    /\ Call(Cmd(target, "kubectl drain"), "d_nodedelete")

\* drainAndDeleteNodeForMachine: kubectl delete
deleteNode ==
    /\ pc = "d_nodedelete"
    /\ UNCHANGED <<store, cmd, pre, runs, stdOut, token, codec, procs, locals>>
    /\ Call(Cmd(target, "kubectl delete node"), "d_actuator")


\* Delete that goes from the teardown straight on to the deletion of the Machine.
AfterTeardown_skipped == "d_delmachine"

\* The step of delete that follows the actuator's teardown.
AfterTeardown == "d_cluster"

\* actuator.Delete(cluster, targetMachine)
actuatorDelete ==
    /\ pc = "d_actuator"
    /\ UNCHANGED <<store, cmd, pre, runs, stdOut, token, codec, procs, locals>>
    /\ Call(Cmd(target, "actuator.Delete"), AfterTeardown)

\* The "Updating cluster status" block of delete: the machine's etcd member, when
\* it has one, is deleted from the set and the Cluster status written back.
deleteUpdateClusterStatus ==
    /\ pc = "d_cluster"
    /\ UNCHANGED <<machines, pms, tokenSecret, cmd, pre, runs, stdOut, token, codec, procs, target, role, newNil, mem,
                   masters, idx, sub, etcdCASecret, firstEtcdMember, etcdMember, nodeName>>
    /\ \/ /\ UNCHANGED <<clusterMembers, cluster, trace>>
          /\ Fatal
       \/ /\ mem[target].member = NilMember
          /\ UNCHANGED <<clusterMembers, cluster, trace>>
          /\ Goto("d_delmachine")
       \/ /\ mem[target].member # NilMember
          /\ cluster' = SetList(SetDelete(NewEtcdMemberSet(cluster), mem[target].member))
          /\ \/ /\ clusterMembers' = cluster'
                /\ Issue(<<Write("UpdateClusterStatus")>>)
                /\ Goto("d_delmachine")
             \/ /\ UNCHANGED clusterMembers
                /\ Issue(<<Failed(Write("UpdateClusterStatus"))>>)
                /\ Fatal

\* Machines(...).Delete(targetMachine.Name)
deleteMachine ==
    /\ pc = "d_delmachine"
    /\ UNCHANGED <<pms, clusterMembers, tokenSecret, cmd, pre, runs, stdOut, token, codec, procs, locals>>
    /\ \/ /\ UNCHANGED machines
          /\ Issue(<<Failed(Write("DeleteMachine"))>>)
          /\ Fatal
       \/ /\ machines' = [machines EXCEPT ![target] = NoMachine]
          /\ Issue(<<Write("DeleteMachine")>>)
          /\ Goto("d_delpm")

\* ProvisionedMachines(...).Delete(targetProvisionedMachine.Name)
deleteProvisionedMachine ==
    /\ pc = "d_delpm"
    /\ UNCHANGED <<machines, clusterMembers, tokenSecret, cmd, pre, runs, stdOut, token, codec, procs, locals>>
    /\ \/ /\ UNCHANGED pms
          /\ Issue(<<Failed(Write("DeleteProvisionedMachine"))>>)
          /\ Fatal
       \/ /\ pms' = pms \ {mem[target].pm}
          /\ Issue(<<Write("DeleteProvisionedMachine")>>)
          /\ Goto("pull")

Delete ==
    \/ machineCmdDelete
    \/ lookupNode
    \/ drainNode
    \/ deleteNode
    \/ actuatorDelete
    \/ deleteUpdateClusterStatus
    \/ deleteMachine
    \/ deleteProvisionedMachine

\* ================================================================ recover
\* The orders in which Machines(...).List can return the machines of set S.
Orders(S) ==
    {o \in [1..Cardinality(S) -> S] : \A i, j \in DOMAIN o : o[i] = o[j] => i = j}

\* The outcomes of the read of the etcd CA secret in recoverEtcdCmd: the secret with
\* both entries, without the certificate, without the key; not found; another
\* error, after which the client hands back nil or an empty Secret.
CASecretReads == {"full", "nocert", "nokey", "notfound", "nil", "empty"}

\* recoverEtcdCmd up to the call of recoverEtcd: the reads of the Cluster, of the
\* etcd CA secret and of the machine list, and the selection of the masters.
recoverEtcdCmd ==
    /\ Start("recover")
    /\ \E fail \in {"none", "cluster", "list"}, ca \in CASecretReads,
          order \in Orders(Masters(machines)) :
        /\ UNCHANGED <<store, target, role, newNil, idx, sub, firstEtcdMember,
                       etcdMember, nodeName>>
        /\ IF fail = "cluster"
           THEN /\ trace' = <<Failed(Read("GetCluster"))>>
                /\ UNCHANGED <<cluster, mem, masters, etcdCASecret>>
                /\ Fatal
           ELSE IF ca = "notfound"
           THEN /\ trace' = <<Read("GetCluster"), Failed(Read("GetEtcdCASecret"))>>
                /\ cluster' = clusterMembers
                /\ UNCHANGED <<mem, masters, etcdCASecret>>
                /\ Fatal
           ELSE IF fail = "list"
           THEN /\ trace' = <<Read("GetCluster"),
                              IF ca \in {"nil", "empty"} THEN Failed(Read("GetEtcdCASecret"))
                                                         ELSE Read("GetEtcdCASecret"),
                              Failed(Read("ListMachines"))>>
                /\ cluster' = clusterMembers
                /\ etcdCASecret' = ca
                /\ UNCHANGED <<mem, masters>>
                /\ Fatal
           ELSE /\ trace' = <<Read("GetCluster"),
                              IF ca \in {"nil", "empty"} THEN Failed(Read("GetEtcdCASecret"))
                                                         ELSE Read("GetEtcdCASecret"),
                              Read("ListMachines")>>
                /\ cluster' = clusterMembers
                /\ etcdCASecret' = ca
                /\ masters' = order
                /\ mem' = [n \in Names |->
                             IF n \in Masters(machines) THEN machines[n] ELSE NoMachine]
                /\ Goto("r_entry")


\* recoverEtcd with the bootstrap ahead of the resets.
Phases_bootstrapFirst == <<"r_session", "r_ca", "r_snapshot", "r_reset", "r_restart">>

\* recoverEtcd with the resets ahead of the sessions of the other masters.
Phases_resetFirst == <<"r_reset", "r_session", "r_ca", "r_snapshot", "r_restart">>

\* recoverEtcd, the order of its parts: the sessions, the reset of every master, the
\* etcd CA on every master, the bootstrap (snapshot, seed, joins), the restarts.
Phases == <<"r_session", "r_reset", "r_ca", "r_snapshot", "r_restart">>

\* The part that follows part p; "r_ok", the return of nil, after the last.
PhaseAfter(p) ==
    LET k == CHOOSE i \in DOMAIN Phases : Phases[i] = p
    IN IF k < Len(Phases) THEN Phases[k + 1] ELSE "r_ok"


\* recoverEtcd without its first statement: mastersWithClient[0] is out of range.
recoverEtcd_unguarded ==
    /\ pc = "r_entry"
    /\ UNCHANGED <<store, cmd, pre, runs, stdOut, token, codec, procs, trace, target, role, newNil, cluster, mem, masters,
                   sub, etcdCASecret, firstEtcdMember, etcdMember, nodeName>>
    /\ IF Len(masters) = 0
       THEN /\ UNCHANGED idx
            /\ Panic
       ELSE /\ idx' = 1
            /\ Goto(Phases[1])

\* recoverEtcd, its first statement: nothing to do without masters.
recoverEtcd ==
    /\ pc = "r_entry"
    /\ UNCHANGED <<store, cmd, pre, runs, stdOut, token, codec, procs, trace, target, role, newNil, cluster, mem, masters,
                   sub, etcdCASecret, firstEtcdMember, etcdMember, nodeName>>
    /\ IF Len(masters) = 0
       THEN /\ UNCHANGED idx
            /\ Goto("r_ok")
       ELSE /\ idx' = 1
            /\ Goto(Phases[1])

\* The loop over i, mwc := range mastersWithClient goes on at again with the next
\* master, or leaves the loop for then.
NextMaster(again, then) ==
    IF idx < Len(masters)
    THEN /\ idx' = idx + 1
         /\ Goto(again)
    ELSE /\ idx' = 1
         /\ Goto(then)

\* recoverEtcd, the first loop: a session to every master.
\* sshMachineClientFromSSHConfig dereferences the SSHConfig of the machine status.
newSession ==
    /\ pc = "r_session"
    /\ UNCHANGED <<store, cmd, pre, runs, stdOut, token, codec, procs, target, role, newNil, cluster, mem, masters, sub,
                   etcdCASecret, firstEtcdMember, etcdMember, nodeName>>
    /\ LET m == masters[idx]
       IN \/ /\ UNCHANGED <<trace, idx>>
             /\ Fatal
          \/ /\ ~mem[m].ssh
             /\ UNCHANGED <<trace, idx>>
             /\ Panic
          \/ /\ mem[m].ssh
             /\ \/ /\ Issue(<<Failed(Read("GetSecret"))>>)
                   /\ UNCHANGED idx
                   /\ Fatal
                \/ /\ Issue(<<Read("GetSecret"), Failed(Dial(m))>>)
                   /\ UNCHANGED idx
                   /\ Fatal
                \/ /\ Issue(<<Read("GetSecret"), Dial(m)>>)
                   /\ NextMaster("r_session", PhaseAfter("r_session"))

\* resetEtcdSkipRemoveMember(mwc.Client)
resetEtcdSkipRemoveMember ==
    /\ pc = "r_reset"
    /\ UNCHANGED <<store, cmd, pre, runs, stdOut, token, codec, procs, locals>>
    /\ Call(Cmd(masters[idx], "etcdadm reset"), "r_remove")


\* removeClusterEtcdMember that writes the Cluster status back as it read it.
removeClusterEtcdMember_kept(member, members) == members

\* removeClusterEtcdMember: the Cluster status without the member (matched by id).
removeClusterEtcdMember(member, members) ==
    SetList(SetDelete(NewEtcdMemberSet(members), member))

\* insertClusterEtcdMember that appends the member to the list it read.
insertClusterEtcdMember_appended(member, members) == Append(members, member)

\* insertClusterEtcdMember: the Cluster status with the member.
insertClusterEtcdMember(member, members) ==
    SetList(SetInsert(NewEtcdMemberSet(members), member))

\* recoverEtcd, the reset loop after the reset: the master's etcd member is removed
\* from the in-memory Cluster status, which is written back. The member of the
\* machine status is dereferenced.
removeMember ==
    /\ pc = "r_remove"
    /\ UNCHANGED <<machines, pms, tokenSecret, cmd, pre, runs, stdOut, token, codec, procs, target, role, newNil, mem,
                   masters, sub, etcdCASecret, firstEtcdMember, etcdMember, nodeName>>
    /\ LET m == masters[idx]
       IN \/ /\ UNCHANGED <<clusterMembers, cluster, trace, idx>>
             /\ Fatal
          \/ /\ mem[m].member = NilMember
             /\ UNCHANGED <<clusterMembers, cluster, trace, idx>>
             /\ Panic
          \/ /\ mem[m].member # NilMember
             /\ cluster' = removeClusterEtcdMember(mem[m].member, cluster)
             /\ \/ /\ Issue(<<Failed(Write("UpdateClusterStatus"))>>)
                   /\ UNCHANGED <<clusterMembers, idx>>
                   /\ Fatal
                \/ /\ Issue(<<Write("UpdateClusterStatus")>>)
                   /\ clusterMembers' = cluster'
                   /\ NextMaster("r_reset", PhaseAfter("r_reset"))

\* writeSecretToMachine that moves the certificate before it writes the key.
WriteSecretCalls_moveEarly(m) ==
    << File(m, "MkdirAll", "/etc/etcd/pki"),
       File(m, "MkdirAll", "/etc/etcd/pki"),
       File(m, "WriteFile", "/tmp/tls.crt"),
       File(m, "MoveFile", <<"/tmp/tls.crt", "/etc/etcd/pki/ca.crt">>),
       File(m, "WriteFile", "/tmp/tls.key"),
       File(m, "MoveFile", <<"/tmp/tls.key", "/etc/etcd/pki/ca.key">>) >>

\* writeSecretToMachine, its calls on the session in order. A move carries the path
\* it moves from and the path it moves to.
WriteSecretCalls(m) ==
    << File(m, "MkdirAll", "/etc/etcd/pki"),
       File(m, "MkdirAll", "/etc/etcd/pki"),
       File(m, "WriteFile", "/tmp/tls.crt"),
       File(m, "WriteFile", "/tmp/tls.key"),
       File(m, "MoveFile", <<"/tmp/tls.crt", "/etc/etcd/pki/ca.crt">>),
       File(m, "MoveFile", <<"/tmp/tls.key", "/etc/etcd/pki/ca.key">>) >>

\* writeSecretToMachine, one call per step. sub = 0 is the function's entry, where
\* the two entries of the secret are looked up.
writeSecretToMachine ==
    /\ pc = "r_ca"
    /\ UNCHANGED <<store, cmd, pre, runs, stdOut, token, codec, procs, target, role, newNil, cluster, mem, masters,
                   etcdCASecret, firstEtcdMember, etcdMember, nodeName>>
    /\ LET m == masters[idx]
           calls == WriteSecretCalls(m)
       IN IF sub = 0 /\ etcdCASecret = "nil"
          THEN /\ UNCHANGED <<trace, idx, sub>>
               /\ Panic
          ELSE IF sub = 0 /\ etcdCASecret # "full"
          THEN /\ UNCHANGED <<trace, idx, sub>>
               /\ Fatal
          ELSE \/ /\ Issue(<<Failed(calls[sub + 1])>>)
                  /\ UNCHANGED <<idx, sub>>
                  /\ Fatal
               \/ /\ Issue(<<calls[sub + 1]>>)
                  /\ IF sub + 1 < Len(calls)
                     THEN /\ sub' = sub + 1
                          /\ UNCHANGED idx
                          /\ Goto("r_ca")
                     ELSE /\ sub' = 0
                          /\ NextMaster("r_ca", PhaseAfter("r_ca"))


\* The seed taken from the other end of mastersWithClient.
firstMWC_last(ms) == ms[Len(ms)]

\* firstMWC := mastersWithClient[0]; otherMWCs := mastersWithClient[1:]
firstMWC(ms) == ms[1]
otherMWCs(ms) == Tail(ms)

\* The master being bootstrapped: the seed, then the others in turn.
Bootstrapping == IF idx = 1 THEN firstMWC(masters) ELSE otherMWCs(masters)[idx - 1]

\* writeEtcdSnapshot(localPath, remotePath, firstMWC.Client): the local snapshot is
\* read, then written to the seed.
writeEtcdSnapshot ==
    /\ pc = "r_snapshot"
    /\ UNCHANGED <<store, cmd, pre, runs, stdOut, token, codec, procs, locals>>
    /\ \/ /\ UNCHANGED trace
          /\ Fatal
       \/ Call(File(firstMWC(masters), "WriteFile", "snapshot"), "r_init")

\* etcdadmInitFromSnapshot(remotePath, firstMWC.Client)
etcdadmInitFromSnapshot ==
    /\ pc = "r_init"
    /\ UNCHANGED <<store, cmd, pre, runs, stdOut, token, codec, procs, locals>>
    /\ Call(Cmd(firstMWC(masters), "etcdadm init"), "r_info")

\* The ids `etcdadm info` may report on master m: a new one or a used one, which
\* is the one m held before on the seed, and the one the seed reported on the others.
InfoIds(m) ==
    {FreshId(m)} \cup ({IF idx = 1 THEN pre.machines[m].member.id ELSE firstEtcdMember.id} \ {0})

\* The numbers of client URLs `etcdadm info` may report: none or several on the
\* seed, whose URLs recoverEtcd reads, and several on the others.
InfoURLs == IF idx = 1 THEN {0, MaxURLs} ELSE {MaxURLs}

\* etcdMemberFromMachine(mwc.Client): `etcdadm info` and the decoding of its output.
\* The trace entry of a decoded output carries the member id and the number of
\* client URLs it reported.
etcdMemberFromMachine ==
    /\ pc = "r_info"
    /\ UNCHANGED <<store, cmd, pre, runs, stdOut, token, codec, procs, target, role, newNil, cluster, mem, masters, idx, sub,
                   etcdCASecret, nodeName>>
    /\ LET m == Bootstrapping
       IN \/ /\ Issue(<<Failed(Cmd(m, "etcdadm info"))>>)
             /\ UNCHANGED <<etcdMember, firstEtcdMember>>
             /\ Fatal
          \/ /\ Issue(<<Cmd(m, "etcdadm info")>>)
             /\ UNCHANGED <<etcdMember, firstEtcdMember>>
             /\ Fatal
          \/ \E id \in InfoIds(m), n \in InfoURLs :
               /\ Issue(<<CmdArg(m, "etcdadm info", <<id, n>>)>>)
               /\ etcdMember' = [id |-> id, urls |-> ClientURLs(m, n)]
               /\ firstEtcdMember' = IF idx = 1 THEN etcdMember' ELSE firstEtcdMember
               /\ Goto("r_updmachine")

\* updateMachineEtcdMember that goes on without the write of the Machine status.
updateMachineEtcdMember_local ==
    /\ pc = "r_updmachine"
    /\ UNCHANGED <<pms, clusterMembers, tokenSecret, cmd, pre, runs, stdOut, token, codec, procs, target, role, newNil,
                   cluster, masters, idx, sub, etcdCASecret, firstEtcdMember, etcdMember,
                   nodeName>>
    /\ LET m == Bootstrapping
       IN \/ /\ UNCHANGED <<machines, mem, trace>>
             /\ Fatal
          \/ /\ mem' = [mem EXCEPT ![m].member = etcdMember]
             /\ \/ /\ Issue(<<Failed(Write("UpdateMachineStatus"))>>)
                   /\ UNCHANGED machines
                   /\ Fatal
                \/ /\ UNCHANGED <<machines, trace>>
                   /\ Goto("r_insert")

\* updateMachineEtcdMember(etcdMember, mwc.Machine): the member is recorded in the
\* in-memory Machine status, which is written back.
updateMachineEtcdMember ==
    /\ pc = "r_updmachine"
    /\ UNCHANGED <<pms, clusterMembers, tokenSecret, cmd, pre, runs, stdOut, token, codec, procs, target, role, newNil,
                   cluster, masters, idx, sub, etcdCASecret, firstEtcdMember, etcdMember,
                   nodeName>>
    /\ LET m == Bootstrapping
       IN \/ /\ UNCHANGED <<machines, mem, trace>>
             /\ Fatal
          \/ /\ mem' = [mem EXCEPT ![m].member = etcdMember]
             /\ \/ /\ Issue(<<Failed(Write("UpdateMachineStatus"))>>)
                   /\ UNCHANGED machines
                   /\ Fatal
                \/ /\ Issue(<<Write("UpdateMachineStatus")>>)
                   /\ machines' = [machines EXCEPT ![m].ssh = mem'[m].ssh,
                                                   ![m].member = mem'[m].member]
                   /\ Goto("r_insert")


\* recoverEtcd without the check of the seed's client URLs.
AfterInsert_unchecked ==
    IF idx - 1 < Len(otherMWCs(masters))
    THEN /\ idx' = idx + 1
         /\ Goto("r_join")
    ELSE /\ idx' = 1
         /\ Goto(PhaseAfter("r_snapshot"))

\* What follows the insertion of master idx's member: after the seed's, the check
\* of its client URLs; then the next join, or the restarts.
AfterInsert ==
    IF idx = 1 /\ Len(firstEtcdMember.urls) = 0
    THEN /\ UNCHANGED idx
         /\ Fatal
    ELSE IF idx - 1 < Len(otherMWCs(masters))
    THEN /\ idx' = idx + 1
         /\ Goto("r_join")
    ELSE /\ idx' = 1
         /\ Goto(PhaseAfter("r_snapshot"))

\* insertMember that inserts the seed's member for every master.
insertMember_first ==
    /\ pc = "r_insert"
    /\ UNCHANGED <<machines, pms, tokenSecret, cmd, pre, runs, stdOut, token, codec, procs, target, role, newNil, mem,
                   masters, sub, etcdCASecret, firstEtcdMember, etcdMember, nodeName>>
    /\ \/ /\ UNCHANGED <<clusterMembers, cluster, trace, idx>>
          /\ Fatal
       \/ /\ cluster' = insertClusterEtcdMember(firstEtcdMember, cluster)
          /\ \/ /\ Issue(<<Failed(Write("UpdateClusterStatus"))>>)
                /\ UNCHANGED <<clusterMembers, idx>>
                /\ Fatal
             \/ /\ Issue(<<Write("UpdateClusterStatus")>>)
                /\ clusterMembers' = cluster'
                /\ AfterInsert

\* insertClusterEtcdMember(etcdMember, cluster) in recoverEtcd: the member is
\* inserted in the in-memory Cluster status, which is written back.
insertMember ==
    /\ pc = "r_insert"
    /\ UNCHANGED <<machines, pms, tokenSecret, cmd, pre, runs, stdOut, token, codec, procs, target, role, newNil, mem,
                   masters, sub, etcdCASecret, firstEtcdMember, etcdMember, nodeName>>
    /\ \/ /\ UNCHANGED <<clusterMembers, cluster, trace, idx>>
          /\ Fatal
       \/ /\ cluster' = insertClusterEtcdMember(etcdMember, cluster)
          /\ \/ /\ Issue(<<Failed(Write("UpdateClusterStatus"))>>)
                /\ UNCHANGED <<clusterMembers, idx>>
                /\ Fatal
             \/ /\ Issue(<<Write("UpdateClusterStatus")>>)
                /\ clusterMembers' = cluster'
                /\ AfterInsert

\* endpoint := firstEtcdMember.ClientURLs[0]
Endpoint(member) == member.urls[1]

\* etcdadmJoin(endpoint, mwc.Client). Indexing an empty ClientURLs panics.
etcdadmJoin ==
    /\ pc = "r_join"
    /\ UNCHANGED <<store, cmd, pre, runs, stdOut, token, codec, procs, locals>>
    /\ IF Len(firstEtcdMember.urls) = 0
       THEN /\ UNCHANGED trace
            /\ Panic
       ELSE Call(CmdArg(Bootstrapping, "etcdadm join", <<Endpoint(firstEtcdMember)>>),
                 "r_info")


\* A restart whose error is returned by recoverEtcd.
restartKubelet_fatal ==
    /\ pc = "r_restart"
    /\ UNCHANGED <<store, cmd, pre, runs, stdOut, token, codec, procs, target, role, newNil, cluster, mem, masters, sub,
                   etcdCASecret, firstEtcdMember, etcdMember, nodeName>>
    /\ LET e == Cmd(masters[idx], "systemctl restart kubelet")
       IN \/ /\ Issue(<<e>>)
             /\ NextMaster("r_restart", PhaseAfter("r_restart"))
          \/ /\ Issue(<<Failed(e)>>)
             /\ UNCHANGED idx
             /\ Fatal

\* restartKubelet(mwc.Client): an error is logged and the loop goes on.
restartKubelet ==
    /\ pc = "r_restart"
    /\ UNCHANGED <<store, cmd, pre, runs, stdOut, token, codec, procs, target, role, newNil, cluster, mem, masters, sub,
                   etcdCASecret, firstEtcdMember, etcdMember, nodeName>>
    /\ LET e == Cmd(masters[idx], "systemctl restart kubelet")
       IN /\ (Issue(<<e>>) \/ Issue(<<Failed(e)>>))
          /\ NextMaster("r_restart", PhaseAfter("r_restart"))

Recover ==
    \/ recoverEtcdCmd
    \/ recoverEtcd
    \/ newSession
    \/ resetEtcdSkipRemoveMember
    \/ removeMember
    \/ writeSecretToMachine
    \/ writeEtcdSnapshot
    \/ etcdadmInitFromSnapshot
    \/ etcdMemberFromMachine
    \/ updateMachineEtcdMember
    \/ insertMember
    \/ etcdadmJoin
    \/ restartKubelet

\* The process exits: nothing of the run but the store outlives it.
exit ==
    /\ pc = "done"
    /\ pc' = "idle"
    /\ cmd' = "none"
    /\ result' = "none"
    /\ trace' = <<>>
    /\ pre' = Snapshot
    /\ FreshLocals
    /\ UNCHANGED <<store, runs>>

Create ==
    \/ machineCmdCreate
    \/ createProvisionedMachine
    \/ createMachine
    \/ masterMachineAndProvisionedMachine
    \/ bootstrapTokenSecretFromMachine
    \/ putBootstrapTokenSecret
    \/ actuatorCreate
    \/ adminKubeconfigFromMachine
    \/ writeAdminKubeconfigToMachine
    \/ createUpdateClusterStatus
    \/ pullFromAPIs

Next == Create \/ Delete \/ Recover \/ exit

Spec == Init /\ [][Next]_vars

\* ------------------------------------------------- the parse of an output
\* The outputs of at most MaxOut characters.
Outputs == UNION {[1..n -> Chars] : n \in 0..MaxOut}

\* Any output may be the one to parse.
ParseInit ==
    /\ InitStore
    /\ stdOut \in Outputs
    /\ codec = NoCodec

\* token, caHash, err := tokenAndCAHashFromKubeadmJoinCommand(string(stdOut))
parseJoinCommand ==
    /\ pc = "idle"
    /\ pc' = "parsed"
    /\ token' = tokenAndCAHashFromKubeadmJoinCommand(stdOut)
    /\ UNCHANGED <<store, cmd, result, runs, stdOut, codec, procs, trace, pre, locals>>

ParseNext == parseJoinCommand

ParseSpec == ParseInit /\ [][ParseNext]_vars

\* ------------------------------------------ insertions and deletions alone
\* The etcd members a machine may report: an id and zero or one client URL.
Members == [id : Names, urls : {ClientURLs(1, 0), ClientURLs(1, 1)}]

\* An operation on the member list, as an entry of the trace.
SetOp(what, member) == [k |-> "set", m |-> 0, op |-> what, arg |-> member, err |-> FALSE]

\* insertClusterEtcdMember(etcdMember, cluster), the update of the store included.
insertOne ==
    \E member \in Members :
        /\ pc = "idle"
        /\ Len(trace) < MaxOps
        /\ cluster' = insertClusterEtcdMember(member, clusterMembers)
        /\ clusterMembers' = cluster'
        /\ Issue(<<SetOp("Insert", member)>>)
        /\ UNCHANGED <<machines, pms, tokenSecret, cmd, pc, result, pre, runs, stdOut, token, codec, procs,
                       target, role, newNil, mem, masters, idx, sub, etcdCASecret,
                       firstEtcdMember, etcdMember, nodeName>>

\* removeClusterEtcdMember(etcdMember, cluster), the update of the store included.
removeOne ==
    \E member \in Members :
        /\ pc = "idle"
        /\ Len(trace) < MaxOps
        /\ cluster' = removeClusterEtcdMember(member, clusterMembers)
        /\ clusterMembers' = cluster'
        /\ Issue(<<SetOp("Delete", member)>>)
        /\ UNCHANGED <<machines, pms, tokenSecret, cmd, pc, result, pre, runs, stdOut, token, codec, procs,
                       target, role, newNil, mem, masters, idx, sub, etcdCASecret,
                       firstEtcdMember, etcdMember, nodeName>>

SetNext == insertOne \/ removeOne

SetSpec == Init /\ [][SetNext]_vars

\* ------------------------------------------- the codec of provider configs
\* Any object may be the one to encode, into any registered type the one to decode.
CodecInit ==
    /\ InitStore
    /\ stdOut = <<>>
    /\ codec \in {[in |-> x, providerConfig |-> NilProviderConfig, out |-> ZeroObject(k),
                   err |-> FALSE] : x \in Objects, k \in KnownTypes}

\* providerConfig, err := codec.EncodeToProviderConfig(in)
encodeToProviderConfig ==
    /\ pc = "idle"
    /\ LET e == EncodeToProviderConfig(codec.in)
       IN /\ codec' = [codec EXCEPT !.providerConfig = e.providerConfig, !.err = e.err]
          /\ pc' = IF e.err THEN "encode_failed" ELSE "encoded"
    /\ UNCHANGED <<store, cmd, result, runs, stdOut, token, procs, trace, pre, locals>>

\* err := codec.DecodeFromProviderConfig(*providerConfig, out)
decodeFromProviderConfig ==
    /\ pc = "encoded"
    /\ LET d == DecodeFromProviderConfig(codec.providerConfig, codec.out)
       IN /\ codec' = [codec EXCEPT !.out = d.out, !.err = d.err]
          /\ pc' = "decoded"
    /\ UNCHANGED <<store, cmd, result, runs, stdOut, token, procs, trace, pre, locals>>

CodecNext == encodeToProviderConfig \/ decodeFromProviderConfig

CodecSpec == CodecInit /\ [][CodecNext]_vars

\* ------------------------------------------- the orphan check on any store
\* Machine.Spec.Roles is a list of roles: any list of at most MaxRoles roles.
RECURSIVE RolesUpTo(_)
RolesUpTo(n) ==
    IF n = 0 THEN {<<>>}
    ELSE RolesUpTo(n - 1)
            \cup {Append(rs, r) : rs \in {x \in RolesUpTo(n - 1) : Len(x) = n - 1},
                                  r \in {MasterRole, NodeRole}}

\* A Machine of the store with the given roles, bound to its ProvisionedMachine.
machineWithRoles(name, rs) ==
    [roles |-> rs, pm |-> name, ssh |-> FALSE, member |-> NilMember]

\* The store holds any machines, each with any list of roles, and their
\* ProvisionedMachines; `delete machine` is then run on it.
OrphanInit ==
    /\ machines \in { [n \in Names |-> IF n \in present THEN machineWithRoles(n, rl[n])
                                                        ELSE NoMachine] :
                        present \in SUBSET Names, rl \in [Names -> RolesUpTo(MaxRoles)] }
    /\ pms = Present(machines)
    /\ pre = [machines |-> machines, pms |-> pms, clusterMembers |-> <<>>]
    /\ InitRun
    /\ stdOut = <<>>
    /\ codec = NoCodec

OrphanNext == machineCmdDelete

OrphanSpec == OrphanInit /\ [][OrphanNext]_vars

\* --------------------------------------------- two creations at the same time
\* Two processes run `create machine --role master`, process p for machine p, on
\* the same store. Each has its own locals; the steps of the two interleave.
Procs == 1..2

\* What every step of a process leaves alone.
ProcFrame == UNCHANGED <<tokenSecret, cmd, pc, result, pre, runs, stdOut, token, codec,
                         trace, locals>>

ProcGoto(p, next) == procs' = [procs EXCEPT ![p].pc = next]

\* Clusters(...).Get and the read of the SSH credential: the process holds the
\* Cluster as the store had it then.
procGetCluster ==
    \E p \in Procs :
        /\ procs[p].pc = "start"
        /\ machines[p] = NoMachine /\ p \notin pms
        /\ \/ procs' = [procs EXCEPT ![p].pc = "got", ![p].cluster = clusterMembers]
           \/ ProcGoto(p, "failed")
        /\ UNCHANGED <<machines, pms, clusterMembers>>
        /\ ProcFrame

\* ProvisionedMachines(...).Create, then Machines(...).Create
procCreatePair ==
    \E p \in Procs :
        /\ procs[p].pc = "got"
        /\ \/ /\ UNCHANGED <<machines, pms>>
              /\ ProcGoto(p, "failed")
           \/ /\ pms' = pms \cup {p}
              /\ UNCHANGED machines
              /\ ProcGoto(p, "failed")
           \/ /\ pms' = pms \cup {p}
              /\ machines' = [machines EXCEPT ![p] = newMachine(p, MasterRole)]
              /\ ProcGoto(p, "created")
        /\ UNCHANGED clusterMembers
        /\ ProcFrame

\* actuator.Create(cluster, newMachine): the master has joined etcd and its status
\* carries the member.
procActuatorCreate ==
    \E p \in Procs :
        /\ procs[p].pc = "created"
        /\ \/ /\ UNCHANGED machines
              /\ ProcGoto(p, "failed")
           \/ /\ machines' = [machines EXCEPT ![p] = Bootstrapped(machines[p], FreshId(p))]
              /\ procs' = [procs EXCEPT ![p].pc = "bootstrapped",
                                        ![p].member = machines'[p].member]
        /\ UNCHANGED <<pms, clusterMembers>>
        /\ ProcFrame

\* procUpdateClusterStatus that reads the Cluster again before it inserts.
procUpdateClusterStatus_reread ==
    \E p \in Procs :
        /\ procs[p].pc = "bootstrapped"
        /\ \/ /\ clusterMembers' = insertClusterEtcdMember(procs[p].member, clusterMembers)
              /\ ProcGoto(p, "updated")
           \/ /\ UNCHANGED clusterMembers
              /\ ProcGoto(p, "failed")
        /\ UNCHANGED <<machines, pms>>
        /\ ProcFrame

\* The "Updating cluster status" block: the member is inserted into the members of
\* the Cluster the process holds, and the Cluster written with UpdateStatus. When
\* the store's Cluster has changed since the process read it, the store accepts
\* the write or rejects it, as its concurrency contract has it.
procUpdateClusterStatus ==
    \E p \in Procs :
        /\ procs[p].pc = "bootstrapped"
        /\ \/ /\ clusterMembers' = insertClusterEtcdMember(procs[p].member, procs[p].cluster)
              /\ ProcGoto(p, "updated")
           \/ /\ UNCHANGED clusterMembers
              /\ ProcGoto(p, "failed")
        /\ UNCHANGED <<machines, pms>>
        /\ ProcFrame

\* state.PullFromAPIs() and the success line
procPullFromAPIs ==
    \E p \in Procs :
        /\ procs[p].pc = "updated"
        /\ \/ ProcGoto(p, "done")
           \/ ProcGoto(p, "failed")
        /\ UNCHANGED <<machines, pms, clusterMembers>>
        /\ ProcFrame

RaceNext ==
    \/ procGetCluster
    \/ procCreatePair
    \/ procActuatorCreate
    \/ procUpdateClusterStatus
    \/ procPullFromAPIs

RaceSpec == Init /\ [][RaceNext]_vars

\* ============================================================ properties
InRecover == cmd = "recover"
InDelete == cmd = "delete"

\* The trace entries that reach a machine or change the store.
Mutating(e) == e.k \in {"cmd", "file", "write"}
Remote(e) == e.k \in {"cmd", "file"}

\* Entry e is a call of command op on machine m that returned without error.
Ran(e, op, m) == e.k = "cmd" /\ e.op = op /\ e.m = m /\ ~e.err

BootstrapOps == {"etcdadm init", "etcdadm join"}
Bootstrapped1(t) == \E i \in DOMAIN t : t[i].op \in BootstrapOps

\* The member ids the masters of this recovery held when it started.
OldIds == {pre.machines[masters[k]].member.id : k \in DOMAIN masters} \ {0}

\* Master m was reset in this run, and the Cluster status written back after it.
ResetAndRemoved(m) ==
    \E i \in DOMAIN trace :
        /\ Ran(trace[i], "etcdadm reset", m)
        /\ i < Len(trace)
        /\ trace[i + 1] = Write("UpdateClusterStatus")

\* The member ids read back from masters in this run.
ReportedIds ==
    {trace[i].arg[1] : i \in {j \in DOMAIN trace :
        trace[j].op = "etcdadm info" /\ ~trace[j].err /\ trace[j].arg # <<>>}}

\* The entries a step adds to the trace.
Added == IF Len(trace') > Len(trace) THEN SubSeq(trace', Len(trace) + 1, Len(trace'))
         ELSE <<>>

\* ------------------------------------------------------------------- C1
\* Every master reported a member id that is new (no machine held it and no record
\* of the Cluster status carried it when the run started) and differs from the
\* ids the other masters reported.
FreshDistinctReports ==
    /\ \A k \in DOMAIN masters :
          /\ mem[masters[k]].member.id \notin
                {pre.machines[n].member.id : n \in Names} \cup IdsOf(pre.clusterMembers)
    /\ \A k, l \in DOMAIN masters :
          mem[masters[k]].member.id = mem[masters[l]].member.id => k = l

\* C1: when recoverEtcd has returned nil for N >= 1 masters that reported new,
\* pairwise distinct member ids, the persisted Cluster status holds exactly N
\* members: for each master the member read back from it, and none with an id a
\* master held before the recovery.
C1_RecoveredMembership ==
    (InRecover /\ pc = "r_ok" /\ Len(masters) >= 1 /\ FreshDistinctReports) =>
        /\ Len(clusterMembers) = Len(masters)
        /\ \A k \in DOMAIN masters :
              Cardinality({j \in DOMAIN clusterMembers :
                  clusterMembers[j].id = mem[masters[k]].member.id}) = 1
        /\ IdsOf(clusterMembers) \cap OldIds = {}

C1_Witness ==
    /\ InRecover /\ pc = "r_ok" /\ Len(masters) = NumMachines /\ FreshDistinctReports
    /\ Cardinality(OldIds) = NumMachines

\* ------------------------------------------------------------------- C2
\* C2: a step of recoverEtcd that issues a bootstrap command (init from snapshot or
\* join) starts in a state where every master has been reset with its removal
\* written back; at the first such step no record of the persisted Cluster
\* status carries an id a master held before the recovery.
C2_ResetBeforeBootstrap ==
    [][ (InRecover /\ \E i \in DOMAIN Added : Added[i].op \in BootstrapOps) =>
          /\ \A k \in DOMAIN masters : ResetAndRemoved(masters[k])
          /\ ~Bootstrapped1(trace) => IdsOf(clusterMembers) \cap OldIds = {} ]_vars

C2_Witness ==
    /\ InRecover /\ Len(masters) = NumMachines /\ Cardinality(OldIds) = NumMachines
    /\ \E i \in DOMAIN trace : trace[i].op = "etcdadm join" /\ ~trace[i].err

\* ------------------------------------------------------------------- C3
\* A session to some master could not be established.
SessionFailed ==
    \E i \in DOMAIN trace :
        /\ trace[i].err
        /\ trace[i].k = "dial" \/ trace[i].op = "GetSecret"

\* Every master has a session.
AllSessions == \A k \in DOMAIN masters : \E i \in DOMAIN trace : trace[i] = Dial(masters[k])

RECURSIVE JoinedOf(_)
JoinedOf(t) ==
    IF t = <<>> THEN <<>>
    ELSE IF t[Len(t)].op = "etcdadm join"
         THEN Append(JoinedOf(SubSeq(t, 1, Len(t) - 1)), t[Len(t)].m)
         ELSE JoinedOf(SubSeq(t, 1, Len(t) - 1))

\* C4: the snapshot goes to the first master of the input order and init runs on
\* it, after the snapshot was written; joins run on the other masters in input
\* order, the next only after the one before returned, each against the first
\* client URL read back from the seed; init never runs on another master and
\* join never on the first.
C4_SeedFirstJoinsInOrder ==
    InRecover =>
        /\ \A i \in DOMAIN trace :
              /\ (trace[i].op = "etcdadm init" \/ trace[i].arg = "snapshot") =>
                    trace[i].m = masters[1]
              /\ trace[i].op = "etcdadm init" =>
                    \E j \in 1..(i - 1) : trace[j] = File(masters[1], "WriteFile", "snapshot")
              /\ trace[i].op = "etcdadm join" =>
                    /\ trace[i].m # masters[1]
                    /\ trace[i].arg = <<firstEtcdMember.urls[1]>>
                    /\ firstEtcdMember.urls[1] = <<masters[1], 1>>
                    /\ \E j \in 1..(i - 1) : trace[j] = Cmd(masters[1], "etcdadm init")
                    /\ \A j \in 1..(i - 1) : trace[j].op = "etcdadm join" => ~trace[j].err
        /\ LET joined == JoinedOf(trace)
           IN \/ joined = <<>>
              \/ /\ Len(joined) < Len(masters)
                 /\ joined = SubSeq(masters, 2, Len(joined) + 1)

C4_Witness ==
    /\ InRecover /\ pc = "r_ok" /\ Len(masters) = NumMachines
    /\ Len(JoinedOf(trace)) = NumMachines - 1
    /\ masters[1] > masters[2]

\* ------------------------------------------------------------------- C5
\* The record read back from the seed has no client URL.
SeedWithoutEndpoint ==
    /\ InRecover
    /\ \E i \in DOMAIN trace :
          trace[i].op = "etcdadm info" /\ ~trace[i].err /\ trace[i].arg # <<>>
    /\ firstEtcdMember.urls = <<>>

\* C5: when the member read back from the seed has no client URL, no join is
\* issued on any master, recoverEtcd does not get to the joins, the restarts or
\* its return of nil, and a run that has ended has ended with an error.
C5_NoEndpointNoJoin ==
    SeedWithoutEndpoint =>
        /\ \A i \in DOMAIN trace : trace[i].op # "etcdadm join"
        /\ pc \in {"r_updmachine", "r_insert", "done"}
        /\ pc = "done" => result = "error"

C5_Witness ==
    /\ SeedWithoutEndpoint /\ pc = "done" /\ result = "error"
    /\ Len(masters) >= 2
    /\ trace[Len(trace)] = Write("UpdateClusterStatus")

\* ------------------------------------------------------------------- C6
\* Entry e is an error of one of the steps of recoverEtcd before the restarts: a
\* failed request or call, or an `etcdadm info` whose output does not decode.
StepError(e) ==
    \/ e.err /\ e.op \notin {"systemctl restart kubelet", "GetEtcdCASecret"}
    \/ e.op = "etcdadm info" /\ ~e.err /\ e.arg = <<>>

\* C6: in a recovery, an error of a step before the restarts is the last request
\* or call of the run, which has ended with an error; and when the run has ended
\* with an error, the record of a master that was reset and removed, and whose
\* id no master reported again, is still out of the persisted Cluster status.
C6_FirstErrorEndsRun ==
    InRecover =>
        /\ \A i \in DOMAIN trace :
              StepError(trace[i]) => (i = Len(trace) /\ pc = "done" /\ result = "error")
        /\ (pc = "done" /\ result = "error") =>
              \A k \in DOMAIN masters :
                  LET old == pre.machines[masters[k]].member.id
                  IN (ResetAndRemoved(masters[k]) /\ old \notin ReportedIds) =>
                        old \notin IdsOf(clusterMembers)

C6_Witness ==
    /\ InRecover /\ pc = "done" /\ result = "error" /\ Len(masters) = NumMachines
    /\ trace[Len(trace)] = Failed(CmdArg(masters[2], "etcdadm join", <<<<masters[1], 1>>>>))
    /\ \A k \in DOMAIN masters : ResetAndRemoved(masters[k])
    /\ pre.machines[masters[2]].member.id \in IdsOf(pre.clusterMembers)

\* ------------------------------------------------------------------- C7
RestartOp == "systemctl restart kubelet"

\* The machines on which the restart was attempted, in the order of the trace.
RECURSIVE RestartedOf(_)
RestartedOf(t) ==
    IF t = <<>> THEN <<>>
    ELSE IF t[Len(t)].op = RestartOp
         THEN Append(RestartedOf(SubSeq(t, 1, Len(t) - 1)), t[Len(t)].m)
         ELSE RestartedOf(SubSeq(t, 1, Len(t) - 1))

\* C7: in a recovery, a restart is attempted only after the join of every master
\* but the first has returned without error; the restarts go through the masters
\* in input order whatever their outcome; a restart never ends the run; and when
\* recoverEtcd has returned nil for N >= 1 masters, the restart was attempted on
\* each of them.
C7_RestartsBestEffort ==
    InRecover =>
        /\ \A i \in DOMAIN trace : trace[i].op = RestartOp =>
              /\ \A k \in 2..Len(masters) :
                    \E j \in 1..(i - 1) : Ran(trace[j], "etcdadm join", masters[k])
              /\ i = Len(trace) => pc \in {"r_restart", "r_ok"}
        /\ LET restarted == RestartedOf(trace)
           IN /\ restarted = <<>> \/ (/\ Len(restarted) <= Len(masters)
                                      /\ restarted = SubSeq(masters, 1, Len(restarted)))
              /\ pc = "r_restart" => Len(restarted) = idx - 1
              /\ (pc = "r_ok" /\ Len(masters) >= 1) => restarted = masters

C7_Witness ==
    /\ InRecover /\ pc = "r_ok" /\ Len(masters) = NumMachines
    /\ \E i \in DOMAIN trace :
          /\ trace[i] = Failed(Cmd(masters[1], RestartOp))
          /\ trace[Len(trace)] = Cmd(masters[NumMachines], RestartOp)

\* ------------------------------------------------------------------- C8
\* C8: the step of recoverEtcd from its entry with no master is its return of nil;
\* the Cluster status, the Machines and the ProvisionedMachines are then as they
\* were when the run started, and the run has issued no store write, no session,
\* no remote command and no remote file operation.
C8_NoMastersNoEffect ==
    [][ (pc = "r_entry" /\ Len(masters) = 0) =>
          /\ pc' = "r_ok"
          /\ machines' = pre.machines
          /\ pms' = pre.pms
          /\ clusterMembers' = pre.clusterMembers
          /\ \A i \in DOMAIN trace' : trace'[i].k = "read" ]_vars

C8_Witness ==
    /\ InRecover /\ pc = "r_ok" /\ masters = <<>>
    /\ Present(machines) # {}

\* ------------------------------------------------------------------- C9
\* The run deletes a master from a store that holds exactly one master and at
\* least one node.
DeletesSoleMaster ==
    /\ InDelete
    /\ target \in Masters(pre.machines)
    /\ Cardinality(Masters(pre.machines)) = 1
    /\ \E n \in Names : RoleContains(NodeRole, pre.machines[n].roles)

\* C9: the deletion of the only master of a store that holds a node has ended with
\* an error, straight after the reads of the store: no session, no remote command
\* (node lookup, drain, node delete, actuator teardown) and no store write was
\* issued, and the Machines, ProvisionedMachines and Cluster status are as they
\* were when the run started.
C9_SoleMasterNotDeleted ==
    DeletesSoleMaster =>
        /\ pc = "done" /\ result = "error"
        /\ \A i \in DOMAIN trace : trace[i].k = "read"
        /\ machines = pre.machines
        /\ pms = pre.pms
        /\ clusterMembers = pre.clusterMembers

C9_Witness ==
    /\ DeletesSoleMaster
    /\ trace = <<Read("GetMachine"), Read("GetProvisionedMachine"), Read("GetCluster"),
                 Read("ListMachines")>>
    /\ pc = "done" /\ result = "error"

\* ------------------------------------------------------------------ C10
\* C10: in a deletion, when the target Machine that was in the store at the start of
\* the run is no longer there, no record of the persisted Cluster status carries
\* the member id of that machine.
C10_MemberRemovedBeforeMachine ==
    (/\ InDelete
     /\ target \in Names
     /\ pre.machines[target] # NoMachine
     /\ machines[target] = NoMachine
     /\ pre.machines[target].member # NilMember) =>
        pre.machines[target].member.id \notin IdsOf(clusterMembers)

C10_Witness ==
    /\ InDelete
    /\ target \in Names
    /\ machines[target] = NoMachine
    /\ pre.machines[target].member.id \in IdsOf(pre.clusterMembers)
    /\ Len(clusterMembers) >= 1

\* ------------------------------------------------------------------ C11
\* The position of the first entry of the trace with command op; 0 without one.
FirstOf(op) ==
    IF \E i \in DOMAIN trace : trace[i].op = op
    THEN CHOOSE i \in DOMAIN trace : trace[i].op = op /\ \A j \in 1..(i - 1) : trace[j].op # op
    ELSE 0

\* The session to the target could not be set up, or the lookup, the drain or the
\* deletion of the node returned an error.
NodeStepFailed ==
    \E i \in DOMAIN trace :
        /\ trace[i].err
        /\ \/ trace[i].op \in {"kubectl get node", "kubectl drain", "kubectl delete node"}
           \/ trace[i].k = "dial"
           \/ trace[i].op = "GetSecret"

\* C11: in a deletion, the actuator's teardown is called only after the node lookup
\* has returned without error and, when it printed a node name, after the drain
\* and then the deletion of the node have returned without error; when the
\* session, the lookup, the drain or the node deletion fails, the run has ended
\* with an error, without a teardown and without a store write, the Machines,
\* ProvisionedMachines and Cluster status being as at the start of the run.
C11_TeardownAfterDrain ==
    InDelete =>
        /\ FirstOf("actuator.Delete") # 0 =>
              LET t == FirstOf("actuator.Delete")
                  l == FirstOf("kubectl get node")
                  d == FirstOf("kubectl drain")
                  n == FirstOf("kubectl delete node")
              IN /\ l # 0 /\ l < t /\ ~trace[l].err
                 /\ nodeName => (/\ d # 0 /\ n # 0
                                 /\ l < d /\ d < n /\ n < t
                                 /\ ~trace[d].err /\ ~trace[n].err)
        /\ NodeStepFailed =>
              /\ pc = "done" /\ result = "error"
              /\ FirstOf("actuator.Delete") = 0
              /\ \A i \in DOMAIN trace : trace[i].k # "write"
              /\ machines = pre.machines
              /\ pms = pre.pms
              /\ clusterMembers = pre.clusterMembers

C11_Witness ==
    /\ InDelete /\ nodeName
    /\ FirstOf("actuator.Delete") # 0
    /\ FirstOf("kubectl drain") # 0
    /\ machines[target] = NoMachine

\* ------------------------------------------------------------------ C12
\* The node lookup returned without error and printed no node name.
NoNodeFound ==
    /\ InDelete
    /\ FirstOf("kubectl get node") # 0
    /\ ~trace[FirstOf("kubectl get node")].err
    /\ ~nodeName

\* The requests and calls of a deletion after the node lookup, in order. The
\* Cluster status is written only when the machine has an etcd member.
AfterLookup ==
    <<"actuator.Delete">>
        \o (IF mem[target].member # NilMember THEN <<"UpdateClusterStatus">> ELSE <<>>)
        \o <<"DeleteMachine", "DeleteProvisionedMachine", "PullFromAPIs">>

\* C12: in a deletion whose node lookup returned no node name, neither the drain
\* nor the deletion of a node is issued, and what the run issues after the lookup
\* is, in this order, the actuator's teardown, the write of the Cluster status
\* (for a machine with an etcd member), the deletion of the Machine and the
\* deletion of the ProvisionedMachine, each only after the one before returned
\* without error.
C12_NoNodeNoDrain ==
    NoNodeFound =>
        LET l == FirstOf("kubectl get node")
            rest == SubSeq(trace, l + 1, Len(trace))
        IN /\ \A i \in DOMAIN trace : trace[i].op \notin {"kubectl drain", "kubectl delete node"}
           /\ Len(rest) <= Len(AfterLookup)
           /\ \A i \in DOMAIN rest :
                 /\ rest[i].op = AfterLookup[i]
                 /\ rest[i].err => i = Len(rest)
           /\ pc # "d_drain" /\ pc # "d_nodedelete"

C12_Witness ==
    /\ NoNodeFound /\ pc = "done" /\ result = "ok"
    /\ machines[target] = NoMachine
    /\ target \notin pms
    /\ pre.machines[target].member # NilMember

\* ------------------------------------------------------------------ C13
\* C13: in every state, also within a run and after a run that ended with an error,
\* the ProvisionedMachine that a Machine of the store names is in the store.
C13_MachineHasProvisionedMachine ==
    \A n \in Names : machines[n] # NoMachine => machines[n].pm \in pms

C13_Witness ==
    /\ InDelete /\ pc = "done" /\ result = "error"
    /\ machines[target] = NoMachine
    /\ target \in pms
    /\ trace[Len(trace)] = Failed(Write("DeleteProvisionedMachine"))
    /\ \E n \in Names : machines[n] # NoMachine

\* ------------------------------------------------------------------ C14
InCreate == cmd = "create"

\* The run creates a machine of which the store held neither object.
CreatesNewPair ==
    /\ InCreate
    /\ target \in Names
    /\ pre.machines[target] = NoMachine
    /\ target \notin pre.pms

\* C14: when a creation of a new machine has ended, with or without an error, the
\* store holds both the Machine and its ProvisionedMachine or neither.
C14_NoOneSidedBind ==
    (CreatesNewPair /\ pc = "done") =>
        (machines[target] # NoMachine <=> target \in pms)

\* ------------------------------------------------------------------ C15
\* C15: when newProvisionedMachineAndMachine has failed, the creation ends with an
\* error and calls neither ProvisionedMachines(...).Create nor Machines(...).Create.
C15_EncodingErrorNoCreate ==
    (InCreate /\ newNil) =>
        /\ \A i \in DOMAIN trace :
              trace[i].op \notin {"CreateProvisionedMachine", "CreateMachine"}
        /\ pc = "done" => result = "error"

\* ------------------------------------------------------------------ C16
\* C16: a creation with a role that is neither Master nor Node has ended with an
\* error without a store request, a session or a remote call, the store being as
\* at the start of the run.
C16_InvalidRoleRejected ==
    (InCreate /\ role \notin {MasterRole, NodeRole}) =>
        /\ pc = "done" /\ result = "error"
        /\ trace = <<>>
        /\ machines = pre.machines
        /\ pms = pre.pms
        /\ clusterMembers = pre.clusterMembers

C16_Witness ==
    /\ InCreate /\ role = "Other" /\ pc = "done" /\ result = "error"
    /\ Present(machines) # {}

\* ------------------------------------------------------------------ C17
\* The positions of an output where a field begins: a character that is not white
\* space, at the start of the output or after white space.
FieldStarts(s) ==
    {i \in DOMAIN s : s[i] # " " /\ (i = 1 \/ s[i - 1] = " ")}

\* The trace holds the token command with an output that is not of seven fields.
UnparseableOutput ==
    \E i \in DOMAIN trace :
        /\ trace[i].op = "kubeadm token create"
        /\ ~trace[i].err
        /\ Cardinality(FieldStarts(trace[i].arg)) # 7

\* C17: a creation whose token command has returned an output that does not parse
\* has ended with an error, without a call of the actuator, without a creation or
\* an update of the token secret and without a read or a write of the admin
\* kubeconfig; the new machine has neither the SSH configuration nor an etcd member
\* in its status.
C17_UnparseableOutputAborts ==
    (InCreate /\ UnparseableOutput) =>
        /\ pc = "done" /\ result = "error"
        /\ \A i \in DOMAIN trace :
              /\ trace[i].op \notin {"actuator.Create", "CreateSecret", "UpdateSecret"}
              /\ trace[i].k # "file"
        /\ machines[target] = newMachine(target, NodeRole)

C17_Witness ==
    /\ InCreate /\ UnparseableOutput /\ pc = "done" /\ result = "error"
    /\ role = NodeRole
    /\ stdOut = Line(8)
    /\ token.err

\* ------------------------------------------------------------------ C18
\* The n-th position, counted from 0, where a field of s begins.
FieldStart(s, n) ==
    CHOOSE i \in FieldStarts(s) : Cardinality({j \in FieldStarts(s) : j < i}) = n

\* The field of s that begins at position i: the characters up to the last one
\* before white space or the end of s.
FieldAt(s, i) ==
    LET e == CHOOSE e \in i..Len(s) :
                 /\ \A j \in i..e : s[j] # " "
                 /\ e = Len(s) \/ s[e + 1] = " "
    IN SubSeq(s, i, e)

\* C18: for an output of exactly seven fields tokenAndCAHashFromKubeadmJoinCommand
\* returns field 4 as the token and field 6 as the hash, counted from 0, and no
\* error; for an output of any other number of fields, the empty one included, it
\* returns an error, the empty token and the empty hash.
C18_TokenAndCAHashOfSevenFields ==
    pc = "parsed" =>
        IF Cardinality(FieldStarts(stdOut)) = 7
        THEN /\ ~token.err
             /\ token.token = FieldAt(stdOut, FieldStart(stdOut, 4))
             /\ token.caHash = FieldAt(stdOut, FieldStart(stdOut, 6))
        ELSE /\ token.err
             /\ token.token = <<>>
             /\ token.caHash = <<>>

C18_Witness ==
    /\ pc = "parsed"
    /\ ~token.err
    /\ Len(token.token) # Len(token.caHash)
    /\ stdOut[1] = " "

\* ------------------------------------------------------------------ C19
\* actuator.Create has returned an error.
ActuatorFailed ==
    \E i \in DOMAIN trace : trace[i] = Failed(Cmd(target, "actuator.Create"))

\* C19: a creation whose actuator has failed has ended with an error; the Machine
\* and the ProvisionedMachine it created are in the store; the admin kubeconfig
\* was neither read nor written; the etcd members of the Cluster status are those
\* of the start of the run and the Cluster status was not written.
C19_ActuatorFailureKeepsPair ==
    (InCreate /\ ActuatorFailed) =>
        /\ pc = "done" /\ result = "error"
        /\ machines[target] # NoMachine
        /\ pre.machines[target] = NoMachine
        /\ target \in pms
        /\ target \notin pre.pms
        /\ \A i \in DOMAIN trace :
              /\ trace[i].k # "file"
              /\ trace[i].op # "UpdateClusterStatus"
        /\ clusterMembers = pre.clusterMembers

C19_Witness ==
    /\ InCreate /\ ActuatorFailed /\ pc = "done" /\ result = "error"
    /\ role = NodeRole
    /\ machines[target].ssh
    /\ clusterMembers # <<>>

\* ------------------------------------------------------------------ C20
\* The positions of the etcd members of the Cluster status with the given id.
WithId(members, id) == {i \in DOMAIN members : members[i].id = id}

\* C20: after a creation that has ended without an error, when the status of the
\* new machine has an etcd member, the Cluster status holds exactly one member of
\* its id and every member of another id that it held at the start of the run;
\* when the status has no etcd member, the Cluster status was not written and its
\* members are those of the start of the run.
C20_CreateInsertsOwnMember ==
    (InCreate /\ pc = "done" /\ result = "ok") =>
        LET own == machines[target].member
        IN IF own # NilMember
           THEN /\ Cardinality(WithId(clusterMembers, own.id)) = 1
                /\ \A i \in DOMAIN pre.clusterMembers :
                      pre.clusterMembers[i].id # own.id =>
                          \E j \in DOMAIN clusterMembers :
                              clusterMembers[j] = pre.clusterMembers[i]
           ELSE /\ \A i \in DOMAIN trace : trace[i].op # "UpdateClusterStatus"
                /\ clusterMembers = pre.clusterMembers

C20_Witness ==
    /\ InCreate /\ pc = "done" /\ result = "ok"
    /\ machines[target].member # NilMember
    /\ pre.clusterMembers # <<>>
    /\ Len(clusterMembers) = Len(pre.clusterMembers) + 1

\* ------------------------------------------------------------------ C21
\* The position of the last operation of the trace on the given id, 0 when there is
\* none.
LastOpOn(id) ==
    LET on == {i \in DOMAIN trace : trace[i].k = "set" /\ trace[i].arg.id = id}
    IN IF on = {} THEN 0 ELSE CHOOSE i \in on : \A j \in on : j <= i

\* The id was inserted and not deleted afterwards.
Live(id) == LastOpOn(id) # 0 /\ trace[LastOpOn(id)].op = "Insert"

\* The member list holds exactly one record for each id inserted and not deleted
\* afterwards, the record of the last insertion, and no record of another id.
ListIsLive ==
    \A id \in Names :
        IF Live(id)
        THEN /\ Cardinality(WithId(clusterMembers, id)) = 1
             /\ \E i \in DOMAIN clusterMembers : clusterMembers[i] = trace[LastOpOn(id)].arg
        ELSE WithId(clusterMembers, id) = {}

\* The step deletes an id that the member list does not hold.
DeletesAbsent ==
    /\ trace' # trace
    /\ trace'[Len(trace')].op = "Delete"
    /\ WithId(clusterMembers, trace'[Len(trace')].arg.id) = {}

\* C21: after every sequence of insertions and deletions, each one building the set
\* from the persisted list and persisting its List(), the list holds exactly one
\* record for each id inserted and not deleted afterwards, whatever the order and
\* however often the id was inserted; a deletion of an absent id leaves the list as
\* it was.
C21_ListOneRecordPerLiveId ==
    /\ [](pc = "idle" => ListIsLive)
    /\ [][DeletesAbsent => clusterMembers' = clusterMembers]_vars

C21_Witness ==
    /\ Len(trace) = MaxOps
    /\ trace[1].op = "Insert" /\ trace[2].op = "Insert" /\ trace[3].op = "Delete"
    /\ trace[4].op = "Delete"
    /\ trace[1].arg.id = trace[2].arg.id
    /\ trace[1].arg # trace[2].arg
    /\ trace[3].arg.id # trace[1].arg.id
    /\ trace[4].arg.id = trace[3].arg.id
    /\ Len(clusterMembers) = 1

BothCreated == \A p \in Procs : procs[p].pc = "done"

\* The member of the process is among the persisted members of the Cluster status.
Recorded(p) == \E i \in DOMAIN clusterMembers : clusterMembers[i] = procs[p].member

\* Each process read the Cluster before the other wrote it.
ReadBeforeWrites ==
    \A p, q \in Procs : p # q => procs[q].member.id \notin IdsOf(procs[p].cluster)

\* C23: of two creations of masters that have both succeeded, when each read the
\* Cluster before the other wrote its status the persisted members lack the member
\* of one of the two; when one read the Cluster after the other wrote it, the
\* persisted members hold both.
C23_ConcurrentCreatesLoseMember ==
    BothCreated =>
        IF ReadBeforeWrites
        THEN \E p \in Procs : ~Recorded(p)
        ELSE \A p \in Procs : Recorded(p)

C23_Witness ==
    /\ BothCreated
    /\ ReadBeforeWrites
    /\ procs[1].member # NilMember /\ procs[2].member # NilMember
    /\ procs[1].member # procs[2].member
    /\ Len(clusterMembers) = 1

\* ------------------------------------------------------------------ C24
\* The paths of the etcd CA on a master and the temp paths it is written to first.
CAPaths == {"/etc/etcd/pki/ca.crt", "/etc/etcd/pki/ca.key"}
TmpPaths == {"/tmp/tls.crt", "/tmp/tls.key"}

\* Before position i the call e was issued and succeeded.
DoneBefore(i, e) == \E j \in 1..(i - 1) : trace[j] = e

\* Before position i the CA was moved to both of its paths on master m.
CAMovedBefore(i, m) ==
    \A q \in CAPaths :
        \E t \in TmpPaths : DoneBefore(i, File(m, "MoveFile", <<t, q>>))

\* C24: in a recovery no WriteFile is issued for a path of the etcd CA; every move,
\* also one that fails, is from a temp path to a path of the CA and follows the
\* successful writes of both temp paths on that master; the transfer of the
\* snapshot, also one that fails, follows the moves to both paths of the CA on every
\* master.
C24_CAThroughTempThenMove ==
    InRecover =>
        \A i \in DOMAIN trace :
            /\ trace[i].op = "WriteFile" => trace[i].arg \in TmpPaths \cup {"snapshot"}
            /\ trace[i].op = "MoveFile" =>
                  /\ trace[i].arg[1] \in TmpPaths
                  /\ trace[i].arg[2] \in CAPaths
                  /\ \A t \in TmpPaths : DoneBefore(i, File(trace[i].m, "WriteFile", t))
            /\ (trace[i].op = "WriteFile" /\ trace[i].arg = "snapshot") =>
                  \A k \in DOMAIN masters : CAMovedBefore(i, masters[k])

C24_Witness ==
    /\ InRecover
    /\ Len(masters) = 3
    /\ \E i \in DOMAIN trace :
          /\ trace[i] = File(masters[1], "WriteFile", "snapshot")
          /\ \A k \in DOMAIN masters : CAMovedBefore(i, masters[k])

\* ------------------------------------------------------------------ C25
\* The step issues a call on a session to a master.
IssuesRemote ==
    \E i \in (Len(trace) + 1)..Len(trace') : Remote(trace'[i])

\* The step issues a write of a status that the store refuses.
WriteBackFails ==
    \E i \in (Len(trace) + 1)..Len(trace') :
        /\ trace'[i].err
        /\ trace'[i].op \in {"UpdateClusterStatus", "UpdateMachineStatus"}

\* The statuses the run holds in memory are those of the store: the members of the
\* Cluster status and the status of every master.
InMemoryIsPersisted ==
    /\ cluster = clusterMembers
    /\ \A k \in DOMAIN masters : mem[masters[k]] = machines[masters[k]]

\* C25: in a recovery, whenever a call is issued on a session, the Cluster status
\* and the Machine statuses held in memory are those persisted in the store; and a
\* write of a status that fails ends the run with an error.
C25_WrittenBackBeforeRemote ==
    [][InRecover =>
          /\ IssuesRemote => InMemoryIsPersisted
          /\ WriteBackFails => (pc' = "done" /\ result' = "error")]_vars

C25_Witness ==
    /\ InRecover
    /\ Len(masters) >= 2
    /\ InMemoryIsPersisted
    /\ pre.clusterMembers # clusterMembers
    /\ machines[masters[1]] # pre.machines[masters[1]]
    /\ trace # <<>>
    /\ trace[Len(trace)].op = "etcdadm join"
    /\ ~trace[Len(trace)].err

\* ------------------------------------------------------------------ C26
\* A master whose Machine status has no etcd member was reset.
MemberlessReset ==
    \E k \in DOMAIN masters, i \in DOMAIN trace :
        /\ mem[masters[k]].member = NilMember
        /\ Ran(trace[i], "etcdadm reset", masters[k])

\* C26: a recovery that has reset a master whose Machine status has no etcd member
\* does not crash: it goes on, the members of the Cluster status being unchanged by
\* that master.
C26_MemberlessMasterHandled ==
    (InRecover /\ MemberlessReset) => result # "panic"

\* ------------------------------------------------------------------ C27
\* The machines of the store with the given role.
WithRole(r) == {n \in Names : RoleContains(r, machines[n].roles)}

\* C27: in every state, also within a run and after a run that ended with an error,
\* a store that holds a Machine with the node role holds a Machine with the master
\* role.
C27_NoNodeWithoutMaster ==
    WithRole(NodeRole) # {} => WithRole(MasterRole) # {}

\* ------------------------------------------------------------------ C28
\* The seed was initialized and, after that, its member written to the Cluster
\* status.
SeedPersisted ==
    \E i, j \in DOMAIN trace :
        /\ i < j
        /\ Ran(trace[i], "etcdadm init", masters[1])
        /\ trace[j] = Write("UpdateClusterStatus")

\* C28: a recovery of exactly one master, once the seed is initialized and its
\* member persisted, does not fail in recoverEtcd, however many client URLs the
\* seed reported: it ends without an error, or with the error of PullFromAPIs.
C28_SoleMasterNeedsNoEndpoint ==
    (InRecover /\ Len(masters) = 1 /\ SeedPersisted /\ pc = "done") =>
        \/ result = "ok"
        \/ trace[Len(trace)] = Failed(Read("PullFromAPIs"))

\* ------------------------------------------------------------------ C29
\* The read of the etcd CA secret failed, or the secret it returned lacks the
\* certificate or the key.
CAUnavailable ==
    \/ \E i \in DOMAIN trace : trace[i] = Failed(Read("GetEtcdCASecret"))
    \/ /\ \E i \in DOMAIN trace : trace[i] = Read("GetEtcdCASecret")
       /\ etcdCASecret \in {"nocert", "nokey"}

\* C29: a recovery that could not read the etcd CA secret, or read one without the
\* certificate or the key, resets no master and leaves the members of the Cluster
\* status as they were, and when it has ended it has ended with an error.
C29_NoCANoReset ==
    (InRecover /\ CAUnavailable) =>
        /\ \A i \in DOMAIN trace : trace[i].op # "etcdadm reset"
        /\ clusterMembers = pre.clusterMembers
        /\ pc = "done" => result = "error"

\* ------------------------------------------------------------------ C30
\* The member the last decoded `etcdadm info` on master m reported in this run.
ReadBackFrom(m) ==
    LET on == {i \in DOMAIN trace : /\ trace[i].op = "etcdadm info" /\ trace[i].m = m
                                    /\ ~trace[i].err /\ trace[i].arg # <<>>}
        last == CHOOSE i \in on : \A j \in on : j <= i
    IN IF on = {} THEN NilMember
       ELSE [id |-> trace[last].arg[1], urls |-> ClientURLs(m, trace[last].arg[2])]

\* The persisted status of every master holds the member read back from it, and
\* the persisted Cluster status holds that member and no other of its id.
StatusesAgree ==
    \A k \in DOMAIN masters :
        LET m == masters[k]
        IN /\ machines[m].member # NilMember
           /\ machines[m].member = ReadBackFrom(m)
           /\ WithId(clusterMembers, machines[m].member.id) # {}
           /\ \A j \in WithId(clusterMembers, machines[m].member.id) :
                 clusterMembers[j] = machines[m].member

\* The masters reported pairwise distinct member ids.
DistinctReports ==
    \A k, l \in DOMAIN masters :
        ReadBackFrom(masters[k]).id = ReadBackFrom(masters[l]).id => k = l

\* C30 as claimed: when recoverEtcd has returned nil for at least one master, the
\* persisted Machine status of every master holds the member read back from it in
\* this run, equal to the member of its id in the persisted Cluster status.
C30_StatusesAgree ==
    (InRecover /\ pc = "r_ok" /\ Len(masters) >= 1) => StatusesAgree

\* C30 as amended: the same, when the masters reported pairwise distinct member
\* ids.
C30_StatusesAgreeOnDistinctIds ==
    (InRecover /\ pc = "r_ok" /\ Len(masters) >= 1 /\ DistinctReports) => StatusesAgree

C30_Witness ==
    /\ InRecover /\ pc = "r_ok" /\ Len(masters) = NumMachines /\ DistinctReports
    /\ StatusesAgree
    /\ \E k \in DOMAIN masters : machines[masters[k]].member.id \in OldIds

\* ------------------------------------------------------------------- C31
\* The orphan check ran on a master target: the list of the machines was read.
OrphanChecked ==
    /\ InDelete
    /\ trace # <<>>
    /\ trace[Len(trace)] = Read("ListMachines")

\* The run ended at the orphan check.
OrphanRejected == pc = "done" /\ result = "error"

\* No machine but m has the master role.
OnlyMaster(m) ==
    \A n \in Present(machines) : RoleContains(MasterRole, machines[n].roles) => n = m

\* A machine other than m has the node role.
OtherNode(m) ==
    \E n \in Present(machines) \ {m} : RoleContains(NodeRole, machines[n].roles)

====
